---- MODULE Spec2Model ----
(***************************************************************************)
(* Model of the order state synchronizer of the EasyEcom gateway           *)
(* (src/index.js, syncOrderStatus) and of the MongoDB collection           *)
(* 'easyecom_orders' it reads and writes.                                  *)
(*                                                                         *)
(* A sync call is an async function: it runs synchronously up to each      *)
(* `await`, so a call is modelled by the steps between its awaits:         *)
(*   StartSync   - sample currentTime, issue findOne          (l.131-139)  *)
(*   FindAbsent / FindNoChange / FindChanged                                *)
(*               - findOne resolves, the branch is computed   (l.139-229)  *)
(*   InsertOne   - insertOne resolves, the call returns       (l.163-165)  *)
(*   ReplaceOne  - replaceOne resolves, the call returns      (l.230-233)  *)
(* Calls of different requests interleave at these steps.                  *)
(***************************************************************************)
EXTENDS Integers, Sequences, FiniteSets, TLC

VARIABLES
    store,     \* the collection: documents in insertion order, _id = position
    pc,        \* per request: "idle", "find", "insert" or "replace"
    call,      \* per request: the arguments of the running call and its currentTime
    existing,  \* per request: existingOrder, what findOne returned (None: nothing)
    pending,   \* per request: docToInsert / docToUpdate awaiting its write
    changes,   \* per request: changesDetected of the running call
    clock,     \* the wall clock sampled by `new Date()`
    log,       \* the calls that have returned, in return order, with their result
    req,       \* per request: the webhook request its handler is serving
    resp,      \* the responses sent, in the order they were sent
    cpStore,   \* the collection clickpost_orders, in insertion order
    cpReq,     \* per request: the ClickPost route it is in and where
    cpOut,     \* the status updates the ClickPost API has received
    cpResp,    \* the responses of the ClickPost routes, in the order sent
    awbCounter, \* the counter of generateAWB
    cpModule   \* the router module: its instance and its CLICKPOST_WEBHOOK_TOKEN

\* the state of the ClickPost integration
cpVars == <<cpStore, cpReq, cpOut, cpResp, awbCounter, cpModule>>

vars == <<store, pc, call, existing, pending, changes, clock, log, req, resp,
          cpVars>>

----------------------------------------------------------------------------
(* Bounds *)

MaxCalls == 3      \* sync calls started in one behaviour
NumProcs == 2      \* webhook requests in flight at once

Procs == 1 .. NumProcs

----------------------------------------------------------------------------
(* JavaScript values *)

\* an optional field: <<>> when the key is absent, <<v>> when it holds v
None == <<>>
Some(v) == <<v>>
IsSome(o) == o # <<>>
Get(o) == o[1]

\* `undefined` (a key that is absent or was read from an absent key) and `null`
NoStatus == "undefined"
Null == "null"

\* what the BSON serializer stores for a key whose value is `undefined`
Bson(v) == IF v = NoStatus THEN Null ELSE v

\* a falsy status: `x && ...`, `x || y`
Falsy(v) == v \in {NoStatus, Null, ""}

\* order_id as it travels in a payload: a number, a numeric string, or absent
NumId(n) == [t |-> "number", v |-> n]
StrId(n) == [t |-> "string", v |-> n]
NoId == [t |-> "undefined", v |-> 0]

NoTime == 0

\* a Date holding the time value t, and the ISO string JSON.stringify writes
\* for it; JSON.parse leaves that string a string
Date(t) == [type |-> "Date", ms |-> t]
IsoString(t) == [type |-> "string", ms |-> t]

----------------------------------------------------------------------------
(* Input domains *)

Statuses == {"Created", "Confirmed"}

\* a sub-order partial of a desired state: its id, its status and one more
\* field of the payload (sku), each of the last two possibly absent
PartialWith(id, st, sku) == [suborder_id |-> id, item_status |-> st, sku |-> sku]

\* a partial that carries nothing but the id and the status
Partial(id, st) == PartialWith(id, st, None)

\* the desired-state document handed to a call: order_id, order_status, the
\* item list under order_items, no list under suborders, and one more
\* top-level field of the payload (reference_code)
DesiredWith(oid, st, items, ref) ==
    [order_id |-> oid, order_status |-> st, order_items |-> items,
     suborders |-> None, reference_code |-> ref]

\* a desired state whose item list travels under the key suborders
DesiredV1(oid, st, subs) ==
    [order_id |-> oid, order_status |-> st, order_items |-> None,
     suborders |-> Some(subs), reference_code |-> None]

\* a desired state that carries no other top-level field
Desired(oid, st, items) == DesiredWith(oid, st, items, None)

\* the credit note of the mark-return webhook (options.push.returns)
CreditNote(n) == [credit_note_id |-> n]

\* a tracking update as the carrier posts it
Tracking(sub, st) == [suborder_id |-> sub, currentShippingStatus |-> st]

\* the arguments of a call: orderId, newOrderData, source, options.push.returns
\* and options.set['order_items.$[elem].tracking_data']
InputWith(o, d, s, push, set) ==
    [orderId |-> o, desired |-> d, source |-> s, push |-> push, set |-> set]

\* a call without options.set
Input(o, d, s, push) == InputWith(o, d, s, push, None)

\* the call the order-tracking webhook makes for one tracking update
TrackingCall(orderId, update) ==
    InputWith(orderId,
              Desired(NumId(orderId), NoStatus,
                      Some(<<Partial(update.suborder_id, update.currentShippingStatus)>>)),
              "order-tracking-webhook", None, Some(update))

----------------------------------------------------------------------------
(* The insert path *)

\* a seed entry that records the bare source tag
initialHistoryEntry_BareSource(status, currentTime, source) ==
    [old_status |-> Null, new_status |-> Bson(status),
     timestamp |-> Date(currentTime), source |-> source]

initialHistoryEntry(status, currentTime, source) ==
    [old_status |-> Null, new_status |-> Bson(status),
     timestamp |-> Date(currentTime), source |-> "created-by-" \o source]

\* an insert step that seeds each item from its own status only
SeedItem_OwnStatus(item, order_status, currentTime, source) ==
    LET st == item.item_status
    IN  [suborder_id |-> item.suborder_id,
         item_status |-> Bson(st),
         status_history |-> <<initialHistoryEntry(st, currentTime, source)>>,
         sku |-> item.sku,
         tracking_data |-> None]

\* an insert step that defaults the item's status and leaves its history
\* for the first update to start
SeedItem_NoHistory(item, order_status, currentTime, source) ==
    LET st == IF Falsy(item.item_status) THEN order_status ELSE item.item_status
    IN  [suborder_id |-> item.suborder_id,
         item_status |-> Bson(st),
         status_history |-> <<>>,
         sku |-> item.sku,
         tracking_data |-> None]

\* forEach body of the insert path: default the item's status, seed its
\* history; the item keeps the fields it came with and gets no tracking_data
SeedItem(item, order_status, currentTime, source) ==
    LET st == IF Falsy(item.item_status) THEN order_status ELSE item.item_status
    IN  [suborder_id |-> item.suborder_id,
         item_status |-> Bson(st),
         status_history |-> <<initialHistoryEntry(st, currentTime, source)>>,
         sku |-> item.sku,
         tracking_data |-> None]

\* an item of a list that the insert path copies without touching it: it
\* has no status_history key
CopyItem(item) ==
    [suborder_id |-> item.suborder_id,
     item_status |-> Bson(item.item_status),
     status_history |-> <<>>,
     sku |-> item.sku,
     tracking_data |-> None]

\* docToInsert[key] after the forEach: the list under itemKey ('order_items'
\* if the desired state has it, else 'suborders') is seeded, a list under the
\* other key is copied as it came
InsertedList(d, key, currentTime, source) ==
    LET itemKey == IF IsSome(d.order_items) THEN "order_items" ELSE "suborders"
        list == IF key = "order_items" THEN d.order_items ELSE d.suborders
    IN  IF ~IsSome(list) THEN None
        ELSE Some([i \in 1 .. Len(Get(list)) |->
                     IF key = itemKey
                     THEN SeedItem(Get(list)[i], d.order_status, currentTime, source)
                     ELSE CopyItem(Get(list)[i])])

\* a created document whose top-level history starts empty
CreateDoc_NoHistory(c) ==
    LET d == c.desired
    IN  [_id |-> 0,
         order_id |-> d.order_id,
         order_status |-> d.order_status,
         status_history |-> <<>>,
         order_items |-> InsertedList(d, "order_items", c.currentTime, c.source),
         suborders |-> InsertedList(d, "suborders", c.currentTime, c.source),
         reference_code |-> d.reference_code,
         returns |-> None,
         created_at |-> NoTime,
         last_updated |-> NoTime]

\* docToInsert: a shallow copy of the desired state plus the seeded histories.
\* order_id is whatever the desired state carries; options are not looked at,
\* and neither created_at nor last_updated is set.
CreateDoc(c) ==
    LET d == c.desired
    IN  [_id |-> 0,
         order_id |-> d.order_id,
         order_status |-> d.order_status,
         status_history |-> <<initialHistoryEntry(d.order_status, c.currentTime, c.source)>>,
         order_items |-> InsertedList(d, "order_items", c.currentTime, c.source),
         suborders |-> InsertedList(d, "suborders", c.currentTime, c.source),
         reference_code |-> d.reference_code,
         returns |-> None,
         created_at |-> NoTime,
         last_updated |-> NoTime]

----------------------------------------------------------------------------
(* The update path.  A pass carries the deep copy being mutated together   *)
(* with changesDetected and needsUpdate.                                   *)

Pass(doc, chg, dirty) == [doc |-> doc, changes |-> chg, needsUpdate |-> dirty]

\* JSON.parse(JSON.stringify(h)) of a history: every Date comes back as its
\* ISO string, the other values of an entry are JSON values and come back equal
JsonHistory(h) ==
    [i \in 1 .. Len(h) |-> [h[i] EXCEPT !.timestamp = IsoString(@.ms)]]

\* the same round trip on an item list (absent stays absent)
JsonItems(list) ==
    IF IsSome(list)
    THEN Some([i \in 1 .. Len(Get(list)) |->
                 [Get(list)[i] EXCEPT !.status_history = JsonHistory(@)]])
    ELSE None

\* a copy that keeps only the keys the synchronizer itself works with
JsonCopy_KnownKeys(doc) ==
    [doc EXCEPT
        !.status_history = JsonHistory(@),
        !.order_items =
            IF IsSome(@)
            THEN Some([i \in 1 .. Len(Get(@)) |->
                         [Get(@)[i] EXCEPT !.status_history = JsonHistory(@),
                                           !.sku = None]])
            ELSE None,
        !.reference_code = None]

\* the deep copy of existingOrder that the update path mutates
JsonCopy(doc) ==
    [doc EXCEPT
        !.status_history = JsonHistory(@),
        !.order_items = JsonItems(@),
        !.suborders = JsonItems(@)]

\* itemKey of the update path: 'order_items' if the stored order has that
\* list, else 'suborders'
ItemKey(doc) == IF IsSome(doc.order_items) THEN "order_items" ELSE "suborders"

\* updatedOrder[itemKey]
StoredItems(doc) ==
    IF ItemKey(doc) = "order_items" THEN doc.order_items ELSE doc.suborders

\* newOrderData[newItemKey]: the incoming list under 'order_items', else the
\* one under 'suborders'
NewItems(d) == IF IsSome(d.order_items) THEN d.order_items ELSE d.suborders

\* doc with the list under itemKey replaced by items
WithItems(doc, items) ==
    IF ItemKey(doc) = "order_items"
    THEN [doc EXCEPT !.order_items = Some(items)]
    ELSE [doc EXCEPT !.suborders = Some(items)]

historyEntry(old, new, currentTime, source) ==
    [old_status |-> Bson(old), new_status |-> new,
     timestamp |-> Date(currentTime), source |-> source]

\* a main-status step that records an entry whenever a status is given
UpdateMain_NoDiff(ps, c) ==
    LET new == c.desired.order_status
        old == ps.doc.order_status
    IN  IF ~Falsy(new)
        THEN Pass([ps.doc EXCEPT
                      !.status_history =
                          Append(@, historyEntry(old, new, c.currentTime, c.source)),
                      !.order_status = new],
                  Append(ps.changes, "main_status: " \o old \o " -> " \o new),
                  TRUE)
        ELSE ps

\* a main-status step that records the transition and leaves order_status
UpdateMain_HistoryOnly(ps, c) ==
    LET new == c.desired.order_status
        old == ps.doc.order_status
    IN  IF ~Falsy(new) /\ old # new
        THEN Pass([ps.doc EXCEPT
                      !.status_history =
                          Append(@, historyEntry(old, new, c.currentTime, c.source))],
                  Append(ps.changes, "main_status: " \o old \o " -> " \o new),
                  TRUE)
        ELSE ps

\* 1. main order status
UpdateMain(ps, c) ==
    LET new == c.desired.order_status
        old == ps.doc.order_status
    IN  IF ~Falsy(new) /\ old # new
        THEN Pass([ps.doc EXCEPT
                      !.status_history =
                          Append(@, historyEntry(old, new, c.currentTime, c.source)),
                      !.order_status = new],
                  Append(ps.changes, "main_status: " \o old \o " -> " \o new),
                  TRUE)
        ELSE ps

\* Array.prototype.find: the first stored item with that suborder_id, 0 if none
FindSub(items, id) ==
    LET hits == {i \in 1 .. Len(items) : items[i].suborder_id = id}
    IN  IF hits = {} THEN 0 ELSE CHOOSE i \in hits : \A j \in hits : i <= j

\* a sub-order step that gives the incoming status to every stored item,
\* whatever its suborder_id
UpdateSub_EveryItem(ps, newSub, c) ==
    LET items == Get(StoredItems(ps.doc))
        hit(k) == ~Falsy(newSub.item_status)
                  /\ items[k].item_status # newSub.item_status
    IN  IF \E k \in 1 .. Len(items) : hit(k)
        THEN Pass(WithItems(ps.doc,
                      [k \in 1 .. Len(items) |->
                          IF hit(k)
                          THEN [items[k] EXCEPT
                                   !.status_history =
                                       Append(@, historyEntry(items[k].item_status,
                                                              newSub.item_status,
                                                              c.currentTime, c.source)),
                                   !.item_status = newSub.item_status]
                          ELSE items[k]]),
                  Append(ps.changes, "suborder_" \o ToString(newSub.suborder_id)),
                  TRUE)
        ELSE ps

\* a sub-order step that creates the sub-order of a partial whose
\* suborder_id is not stored, and does nothing else
UpdateSub_Upsert(ps, newSub, c) ==
    LET items == Get(StoredItems(ps.doc))
    IN  IF FindSub(items, newSub.suborder_id) = 0
        THEN Pass(WithItems(ps.doc,
                            Append(items, SeedItem(newSub, ps.doc.order_status,
                                                   c.currentTime, c.source))),
                  Append(ps.changes, "suborder_" \o ToString(newSub.suborder_id)),
                  TRUE)
        ELSE ps

\* forEach body of the update path, for one incoming partial
UpdateSub(ps, newSub, c) ==
    LET items == Get(StoredItems(ps.doc))
        k == FindSub(items, newSub.suborder_id)
    IN  IF k # 0 /\ ~Falsy(newSub.item_status)
           /\ items[k].item_status # newSub.item_status
        THEN LET old == items[k].item_status
                 sub == [items[k] EXCEPT
                            !.status_history =
                                Append(@, historyEntry(old, newSub.item_status,
                                                       c.currentTime, c.source)),
                            !.item_status = newSub.item_status]
             IN  Pass(WithItems(ps.doc, [items EXCEPT ![k] = sub]),
                      Append(ps.changes,
                             "suborder_" \o ToString(newSub.suborder_id) \o "_status: "
                                 \o old \o " -> " \o newSub.item_status),
                      TRUE)
        ELSE ps

\* a loop that gives the status of the i-th partial to the i-th stored item
RECURSIVE UpdateSubsFrom_ByPosition(_, _, _, _)
UpdateSubsFrom_ByPosition(ps, partials, i, c) ==
    IF i > Len(partials) THEN ps
    ELSE LET items == Get(StoredItems(ps.doc))
             new == partials[i].item_status
         IN  IF i <= Len(items) /\ ~Falsy(new) /\ items[i].item_status # new
             THEN UpdateSubsFrom_ByPosition(
                      Pass(WithItems(ps.doc,
                               [items EXCEPT ![i] =
                                   [@ EXCEPT
                                       !.status_history =
                                           Append(@, historyEntry(items[i].item_status, new,
                                                                  c.currentTime, c.source)),
                                       !.item_status = new]]),
                           Append(ps.changes, "suborder_" \o ToString(i)),
                           TRUE),
                      partials, i + 1, c)
             ELSE UpdateSubsFrom_ByPosition(ps, partials, i + 1, c)

RECURSIVE UpdateSubsFrom(_, _, _, _)
UpdateSubsFrom(ps, partials, i, c) ==
    IF i > Len(partials) THEN ps
    ELSE UpdateSubsFrom(UpdateSub(ps, partials[i], c), partials, i + 1, c)

\* 2. sub-order statuses: only when both sides carry an item list
UpdateSubs(ps, c) ==
    IF IsSome(NewItems(c.desired)) /\ IsSome(StoredItems(ps.doc))
    THEN UpdateSubsFrom(ps, Get(NewItems(c.desired)), 1, c)
    ELSE ps

\* a push that is not listed among the changes
ApplyPush_Unlisted(ps, c) ==
    IF IsSome(c.push)
    THEN Pass([ps.doc EXCEPT
                  !.returns = Some(Append(IF IsSome(@) THEN Get(@) ELSE <<>>,
                                          Get(c.push)))],
              ps.changes,
              TRUE)
    ELSE ps

\* a push that leaves out a credit note the returns already hold
ApplyPush_Once(ps, c) ==
    IF IsSome(c.push)
          /\ ~(IsSome(ps.doc.returns)
                /\ \E i \in 1 .. Len(Get(ps.doc.returns)) :
                      Get(ps.doc.returns)[i] = Get(c.push))
    THEN Pass([ps.doc EXCEPT
                  !.returns = Some(Append(IF IsSome(@) THEN Get(@) ELSE <<>>,
                                          Get(c.push)))],
              Append(ps.changes, "pushed_data_to: returns"),
              TRUE)
    ELSE ps

\* 3. optional pushes (returns)
ApplyPush(ps, c) ==
    IF IsSome(c.push)
    THEN Pass([ps.doc EXCEPT
                  !.returns = Some(Append(IF IsSome(@) THEN Get(@) ELSE <<>>,
                                          Get(c.push)))],
              Append(ps.changes, "pushed_data_to: returns"),
              TRUE)
    ELSE ps

\* the whole synchronous stretch between findOne and replaceOne
UpdateDoc(existingOrder, c) ==
    LET updatedOrder == JsonCopy(existingOrder)
        ps == ApplyPush(UpdateSubs(UpdateMain(Pass(updatedOrder, <<>>, FALSE), c), c), c)
    IN  IF ps.needsUpdate
        THEN [ps EXCEPT !.doc.last_updated = c.currentTime]
        ELSE ps

----------------------------------------------------------------------------
(* The collection *)

\* findOne({order_id: orderId}): the positions of the documents whose order_id
\* is the number orderId (the query is type-strict: "555" is not 555)
Matching(st, orderId) == {i \in 1 .. Len(st) : st[i].order_id = NumId(orderId)}

----------------------------------------------------------------------------
(* The state machine *)

NoCall == [orderId |-> 0, desired |-> Desired(NoId, NoStatus, None),
           source |-> "", push |-> None, set |-> None, currentTime |-> NoTime]

\* no ClickPost request is being served
NoCpReq == [request |-> None, stage |-> "idle", doc |-> None]

\* no webhook request is being served
NoReq == [request |-> None, rest |-> <<>>, results |-> <<>>]

NoDoc == [_id |-> 0, order_id |-> NoId, order_status |-> NoStatus,
          status_history |-> <<>>, order_items |-> None, suborders |-> None,
          reference_code |-> None, returns |-> None,
          created_at |-> NoTime, last_updated |-> NoTime]

\* the value the deployment gives CLICKPOST_WEBHOOK_TOKEN
CLICKPOST_WEBHOOK_TOKEN == "cp-secret"

\* a ClickPost router module as it is loaded: the production or the dev
\* variant, with the CLICKPOST_WEBHOOK_TOKEN it destructured from process.env
\* (None when the environment does not set it)
RouterModule(instance, token) == [instance |-> instance, token |-> token]

\* the production variant with its token set
Production == RouterModule("prod", Some(CLICKPOST_WEBHOOK_TOKEN))

\* the state after the modules are loaded, the ClickPost router being m
Loaded(m) ==
    /\ store = <<>>
    /\ pc = [p \in Procs |-> "idle"]
    /\ call = [p \in Procs |-> NoCall]
    /\ existing = [p \in Procs |-> None]
    /\ pending = [p \in Procs |-> NoDoc]
    /\ changes = [p \in Procs |-> <<>>]
    /\ clock = 0
    /\ log = <<>>
    /\ req = [p \in Procs |-> NoReq]
    /\ resp = <<>>
    /\ cpStore = <<>>
    /\ cpReq = [p \in Procs |-> NoCpReq]
    /\ cpOut = <<>>
    /\ cpResp = <<>>
    /\ awbCounter = 1
    /\ cpModule = m

Init == Loaded(Production)

\* what the call of request p leaves behind when it ends with `action`
Outcome(p, action, chg, rd, st) ==
    [orderId |-> call[p].orderId, desired |-> call[p].desired,
     source |-> call[p].source, push |-> call[p].push, set |-> call[p].set,
     time |-> call[p].currentTime, read |-> rd,
     action |-> action, changes |-> chg, stored |-> st]

\* the call of request p returns `action`; rd is what its findOne had returned,
\* st the collection at the moment of the return
Return(p, action, chg, rd, st) ==
    /\ log' = Append(log, Outcome(p, action, chg, rd, st))
    /\ pc' = [pc EXCEPT ![p] = "idle"]
    /\ call' = [call EXCEPT ![p] = NoCall]
    /\ existing' = [existing EXCEPT ![p] = None]
    /\ pending' = [pending EXCEPT ![p] = NoDoc]
    /\ changes' = [changes EXCEPT ![p] = <<>>]

\* request p calls syncOrderStatus: currentTime is sampled, findOne is issued
StartSync(p, in) ==
    /\ pc[p] = "idle"
    /\ clock < MaxCalls
    /\ clock' = clock + 1
    /\ call' = [call EXCEPT ![p] =
                   [orderId |-> in.orderId, desired |-> in.desired,
                    source |-> in.source, push |-> in.push, set |-> in.set,
                    currentTime |-> clock + 1]]
    /\ pc' = [pc EXCEPT ![p] = "find"]
    /\ existing' = [existing EXCEPT ![p] = None]
    /\ UNCHANGED <<store, pending, changes, log, req, resp, cpVars>>

\* findOne finds nothing: docToInsert is built, insertOne is issued
FindAbsent(p) ==
    /\ pc[p] = "find"
    /\ Matching(store, call[p].orderId) = {}
    /\ existing' = [existing EXCEPT ![p] = None]
    /\ pending' = [pending EXCEPT ![p] = CreateDoc(call[p])]
    /\ changes' = [changes EXCEPT ![p] = <<"new_order_with_history">>]
    /\ pc' = [pc EXCEPT ![p] = "insert"]
    /\ UNCHANGED <<store, call, clock, log, req, resp, cpVars>>

\* a no_change return that still stamps last_updated on the order it found
FindNoChange_Touch(p) ==
    /\ pc[p] = "find"
    /\ \E i \in Matching(store, call[p].orderId) :
          /\ ~UpdateDoc(store[i], call[p]).needsUpdate
          /\ LET st == [store EXCEPT ![i].last_updated = call[p].currentTime]
             IN  /\ store' = st
                 /\ Return(p, "no_change", <<>>, Some(store[i]), st)
    /\ UNCHANGED <<clock, req, resp, cpVars>>

\* findOne finds an order and the diff is empty: no_change, nothing is written
FindNoChange(p) ==
    /\ pc[p] = "find"
    /\ \E i \in Matching(store, call[p].orderId) :
          /\ ~UpdateDoc(store[i], call[p]).needsUpdate
          /\ Return(p, "no_change", <<>>, Some(store[i]), store)
    /\ UNCHANGED <<store, clock, req, resp, cpVars>>

\* findOne finds an order and the diff is not empty: replaceOne is issued
FindChanged(p) ==
    /\ pc[p] = "find"
    /\ \E i \in Matching(store, call[p].orderId) :
          LET ps == UpdateDoc(store[i], call[p])
          IN  /\ ps.needsUpdate
              /\ existing' = [existing EXCEPT ![p] = Some(store[i])]
              /\ pending' = [pending EXCEPT ![p] = ps.doc]
              /\ changes' = [changes EXCEPT ![p] = ps.changes]
    /\ pc' = [pc EXCEPT ![p] = "replace"]
    /\ UNCHANGED <<store, call, clock, log, req, resp, cpVars>>

\* insertOne resolves: the document is added under a fresh _id
InsertOne(p) ==
    /\ pc[p] = "insert"
    /\ LET st == Append(store, [pending[p] EXCEPT !._id = Len(store) + 1])
       IN  /\ store' = st
           /\ Return(p, "inserted", changes[p], existing[p], st)
    /\ UNCHANGED <<clock, req, resp, cpVars>>

\* the entries of history h that the call sampled at time t appended
Own(h, t) == SelectSeq(h, LAMBDA e : e.timestamp.ms = t)

\* a write that pushes the call's own entries onto the document as it is
\* stored now, instead of replacing it
ReplaceOne_Merge(p) ==
    /\ pc[p] = "replace"
    /\ LET id == Get(existing[p])._id
           cur == store[id]
           t == call[p].currentTime
           doc == [pending[p] EXCEPT
                      !.status_history =
                          cur.status_history \o Own(pending[p].status_history, t)]
           st == [store EXCEPT ![id] = doc]
       IN  /\ store' = st
           /\ Return(p, "updated", changes[p], existing[p], st)
    /\ UNCHANGED <<clock, req, resp, cpVars>>

\* a write that sets only the top-level status and last_updated of the
\* stored document
ReplaceOne_StatusOnly(p) ==
    /\ pc[p] = "replace"
    /\ LET id == Get(existing[p])._id
           st == [store EXCEPT ![id] =
                     [@ EXCEPT !.order_status = pending[p].order_status,
                               !.last_updated = pending[p].last_updated]]
       IN  /\ store' = st
           /\ Return(p, "updated", changes[p], existing[p], st)
    /\ UNCHANGED <<clock, req, resp, cpVars>>

\* replaceOne({_id: existingOrder._id}, docToUpdate) resolves: the whole
\* document stored under that _id is replaced
ReplaceOne(p) ==
    /\ pc[p] = "replace"
    /\ LET st == [store EXCEPT ![Get(existing[p])._id] = pending[p]]
       IN  /\ store' = st
           /\ Return(p, "updated", changes[p], existing[p], st)
    /\ UNCHANGED <<clock, req, resp, cpVars>>

----------------------------------------------------------------------------
(* Specifications *)

\* calls as the webhooks of one well-formed feed make them: the payload carries
\* the numeric order_id that the handler parses into orderId
Inputs ==
    {Input(555, Desired(NumId(555), "Created", Some(<<Partial(1, "Created")>>)),
           "create-order-webhook", None)}
    \cup
    {Input(555, Desired(NumId(555), st, None), "confirm-order-webhook", None) :
        st \in Statuses}
    \cup
    {TrackingCall(555, Tracking(1, "Confirmed")),
     Input(555, Desired(NumId(555), NoStatus,
                        Some(<<Partial(2, "Confirmed"), Partial(1, NoStatus)>>)),
           "order-tracking-webhook", None)}
    \cup
    {Input(555, Desired(NumId(555), "Returned", Some(<<Partial(1, "Returned")>>)),
           "mark-return-webhook", Some(CreditNote(1))),
     Input(100, Desired(NumId(100), "Confirmed", None), "test", None)}

\* calls made one after another, with the payload's order_id a number, a
\* numeric string or missing
SeqInputs ==
    {Input(555, Desired(oid, "Created", Some(<<Partial(1, st)>>)), "create", None) :
        oid \in {NoId, NumId(555), StrId(555)}, st \in {"Created", NoStatus}}
    \cup
    {Input(555, Desired(oid, st, None), "confirm", None) :
        oid \in {NoId, NumId(555), StrId(555)}, st \in Statuses \cup {NoStatus}}
    \cup
    {Input(555, Desired(oid, "Confirmed", items), "confirm-again", None) :
        oid \in {NoId, NumId(555)},
        items \in {None, Some(<<Partial(1, "Confirmed")>>)}}
    \cup
    {Input(100, Desired(oid, "Confirmed", None), "test", None) :
        oid \in {NoId, NumId(100)}}

AllIdle == \A q \in Procs : pc[q] = "idle"

\* request slots are interchangeable: a new request takes the first free one
FirstFree(p) == pc[p] = "idle" /\ \A q \in Procs : q < p => pc[q] # "idle"

Next ==
    \E p \in Procs :
        \/ \E in \in Inputs : FirstFree(p) /\ StartSync(p, in)
        \/ FindAbsent(p)
        \/ FindNoChange(p)
        \/ FindChanged(p)
        \/ InsertOne(p)
        \/ ReplaceOne(p)

Spec == Init /\ [][Next]_vars

\* one request at a time: a call starts only when no call is running
SeqNext ==
    \/ \E in \in SeqInputs : AllIdle /\ StartSync(1, in)
    \/ FindAbsent(1)
    \/ FindNoChange(1)
    \/ FindChanged(1)
    \/ InsertOne(1)
    \/ ReplaceOne(1)

SeqSpec == Init /\ [][SeqNext]_vars

\* calls made one after another on an order with two sub-orders: the create
\* payload carries a reference_code and a sku per item; then tracking updates
\* for sub-orders 1, 2 and an unknown 3, a confirmation, a two-item status
\* feed in both item orders, and a return; and a create payload of the older
\* format, whose items travel under suborders
ItemInputs ==
    {Input(555,
           DesiredV1(NumId(555), "Created",
                     <<Partial(1, NoStatus), Partial(2, "Confirmed")>>),
           "create-order-webhook", None)}
    \cup
    {Input(555,
           DesiredWith(NumId(555), "Created",
                       Some(<<PartialWith(1, "Created", Some("sku-a")),
                              PartialWith(2, NoStatus, Some("sku-b"))>>),
                       Some("REF-1")),
           "create-order-webhook", None)}
    \cup
    {TrackingCall(555, Tracking(sub, "Shipped")) : sub \in {1, 2, 3}}
    \cup
    {Input(555, Desired(NumId(555), "Confirmed", None), "confirm-order-webhook", None),
     Input(555, Desired(NumId(555), NoStatus,
                        Some(<<PartialWith(2, "Shipped", Some("sku-x")),
                               Partial(1, "Packed")>>)),
           "fetch-orders-webhook", None),
     Input(555, Desired(NumId(555), NoStatus,
                        Some(<<Partial(1, "Packed"),
                               PartialWith(2, "Shipped", Some("sku-x"))>>)),
           "fetch-orders-webhook", None),
     Input(555, Desired(NumId(555), "Returned", Some(<<Partial(1, "Returned")>>)),
           "mark-return-webhook", Some(CreditNote(1)))}

ItemNext ==
    \/ \E in \in ItemInputs : AllIdle /\ StartSync(1, in)
    \/ FindAbsent(1)
    \/ FindNoChange(1)
    \/ FindChanged(1)
    \/ InsertOne(1)
    \/ ReplaceOne(1)

ItemSpec == Init /\ [][ItemNext]_vars

----------------------------------------------------------------------------
(* Properties of calls made one after another (SeqSpec).  There the k-th   *)
(* entry of the log is the k-th call, and the collection it ran against is *)
(* the one the previous call left.                                         *)

StoreBefore(k) == IF k = 1 THEN <<>> ELSE log[k - 1].stored

\* the k-th call was made with the arguments of input `in`
CalledWith(k, in) ==
    /\ log[k].orderId = in.orderId
    /\ log[k].desired = in.desired
    /\ log[k].source = in.source
    /\ log[k].push = in.push

\* C1: a call for an order id that is not in the store, with a status S and a
\* source tag T, returns "inserted" and adds one document whose top-level
\* status_history is the single entry {old_status: null, new_status: S,
\* source: "created-by-" + T}; the documents already stored are untouched.
C1_CreationSeedsHistory ==
    \A k \in 1 .. Len(log) :
        LET e == log[k]
            before == StoreBefore(k)
        IN  (Matching(before, e.orderId) = {} /\ ~Falsy(e.desired.order_status)) =>
                /\ e.action = "inserted"
                /\ Len(e.stored) = Len(before) + 1
                /\ \A i \in 1 .. Len(before) : e.stored[i] = before[i]
                /\ LET h == e.stored[Len(e.stored)].status_history
                   IN  /\ Len(h) = 1
                       /\ h[1].old_status = Null
                       /\ h[1].new_status = e.desired.order_status
                       /\ h[1].source = "created-by-" \o e.source

\* the example of the specification: sync(100, {order_status: "Confirmed"}, "test")
C1_Witness ==
    \E k \in 1 .. Len(log) :
        /\ log[k].orderId = 100
        /\ log[k].desired.order_status = "Confirmed"
        /\ log[k].source = "test"
        /\ Matching(StoreBefore(k), 100) = {}
        /\ log[k].action = "inserted"
        /\ LET h == log[k].stored[Len(log[k].stored)].status_history
           IN  /\ Len(h) = 1
               /\ h[1].old_status = "null"
               /\ h[1].new_status = "Confirmed"
               /\ h[1].source = "created-by-test"

\* C2: once a call has inserted the order of an orderId, every later call with
\* that orderId takes the update path ("updated" or "no_change") and never
\* inserts a second document.
C2_InsertedOnce ==
    \A j, k \in 1 .. Len(log) :
        (j < k /\ log[j].orderId = log[k].orderId /\ log[j].action = "inserted") =>
            /\ log[k].action \in {"updated", "no_change"}
            /\ Len(log[k].stored) = Len(StoreBefore(k))

\* the three calls of the concrete scenario of the specification
Scenario ==
    <<Input(555, Desired(NoId, "Created", Some(<<Partial(1, "Created")>>)), "create", None),
      Input(555, Desired(NoId, "Confirmed", None), "confirm", None),
      Input(555, Desired(NoId, "Confirmed", None), "confirm-again", None)>>

\* the first n calls are the first n calls of the scenario
ScenarioRan(n) ==
    /\ Len(log) >= n
    /\ \A i \in 1 .. n : CalledWith(i, Scenario[i])

\* the order the scenario is about, as stored after its n-th call
ScenarioDoc(n) == log[n].stored[1]

\* C3: with order 555 absent, after the first call of the scenario the top
\* history and the history of sub-order 1 have length 1; the second call
\* returns "updated", the top history is Created -> Confirmed of length 2 and
\* the history of sub-order 1 still has length 1; the third call returns
\* "no_change" and the top history still has length 2.
C3_Scenario ==
    /\ ScenarioRan(1) =>
          /\ Len(ScenarioDoc(1).status_history) = 1
          /\ Len(Get(ScenarioDoc(1).order_items)[1].status_history) = 1
    /\ ScenarioRan(2) =>
          /\ log[2].action = "updated"
          /\ Len(log[2].stored) = 1
          /\ Len(ScenarioDoc(2).status_history) = 2
          /\ ScenarioDoc(2).status_history[2].old_status = "Created"
          /\ ScenarioDoc(2).status_history[2].new_status = "Confirmed"
          /\ Len(Get(ScenarioDoc(2).order_items)[1].status_history) = 1
    /\ ScenarioRan(3) =>
          /\ log[3].action = "no_change"
          /\ Len(log[3].stored) = 1
          /\ Len(ScenarioDoc(3).status_history) = 2

\* C4: of two calls in a row with the same orderId and desired state and no
\* push, the first returning "inserted" or "updated", the second returns
\* "no_change" and leaves the stored documents equal in every field.
C4_NoOpIdempotent ==
    \A k \in 1 .. Len(log) - 1 :
        ( /\ log[k].orderId = log[k + 1].orderId
          /\ log[k].desired = log[k + 1].desired
          /\ log[k].push = None /\ log[k + 1].push = None
          /\ log[k].action \in {"inserted", "updated"} ) =>
            /\ log[k + 1].action = "no_change"
            /\ log[k + 1].stored = log[k].stored

\* C6: N calls for one order, starting with the order absent, whose statuses
\* differ from call to call, leave one stored order whose status_history has
\* N entries in call order: the first with old_status null, every later one
\* with old_status the new_status of the entry before it.
C6_HistoryFollowsCalls ==
    \A n \in 1 .. Len(log) :
        LET applied == [i \in 1 .. n |-> log[i].desired.order_status]
        IN  ( \A i \in 1 .. n :
                 /\ log[i].orderId = log[1].orderId
                 /\ ~Falsy(applied[i])
                 /\ i > 1 => applied[i] # applied[i - 1] ) =>
                /\ Len(log[n].stored) = 1
                /\ LET h == log[n].stored[1].status_history
                   IN  /\ Len(h) = n
                       /\ h[1].old_status = Null
                       /\ \A i \in 1 .. n :
                             /\ h[i].new_status = applied[i]
                             /\ i > 1 => h[i].old_status = h[i - 1].new_status

----------------------------------------------------------------------------
(* Properties of calls that may overlap (Spec).  A log entry carries what  *)
(* the call read (read) and the collection as its return left it (stored). *)

IsPrefix(a, b) == Len(a) <= Len(b) /\ SubSeq(b, 1, Len(a)) = a

Items(doc) == IF IsSome(StoredItems(doc)) THEN Get(StoredItems(doc)) ELSE <<>>

\* the entries of history h with their time value, whichever form (Date or
\* ISO string) the timestamp is stored in
Entries(h) ==
    [i \in 1 .. Len(h) |->
        [old_status |-> h[i].old_status, new_status |-> h[i].new_status,
         source |-> h[i].source, time |-> h[i].timestamp.ms]]

\* history h1 is h0 plus one entry exactly when the status went from s0 to
\* another value s1, and is h0 otherwise
AppendedIffChanged(h0, s0, h1, s1) ==
    IF s1 # s0 THEN Len(h1) = Len(h0) + 1 /\ IsPrefix(Entries(h0), Entries(h1))
    ELSE Entries(h1) = Entries(h0)

\* no two neighbours of history h have the same new_status
NoRepeat(h) == \A i \in 1 .. Len(h) - 1 : h[i].new_status # h[i + 1].new_status

\* the document the k-th returned call left under the _id it had read
Written(k) ==
    IF log[k].action = "updated" THEN log[k].stored[Get(log[k].read)._id]
    ELSE Get(log[k].read)

\* C5: a call on an existing order appends an entry to the top-level history
\* exactly when it changes order_status, and to a sub-order's history exactly
\* when it changes that sub-order's item_status; no stored history has two
\* neighbouring entries with the same new_status.
C5_AppendIffChange ==
    /\ \A k \in 1 .. Len(log) :
          IsSome(log[k].read) =>
              LET old == Get(log[k].read)
                  new == Written(k)
              IN  /\ AppendedIffChanged(old.status_history, old.order_status,
                                        new.status_history, new.order_status)
                  /\ Len(Items(new)) = Len(Items(old))
                  /\ \A i \in 1 .. Len(Items(old)) :
                        AppendedIffChanged(Items(old)[i].status_history,
                                           Items(old)[i].item_status,
                                           Items(new)[i].status_history,
                                           Items(new)[i].item_status)
    /\ \A i \in 1 .. Len(store) :
          /\ NoRepeat(store[i].status_history)
          /\ \A n \in 1 .. Len(Items(store[i])) :
                NoRepeat(Items(store[i])[n].status_history)

\* one call changed the main status and left sub-order 1 alone, another
\* changed sub-order 1 and left the main status alone
C5_Witness ==
    /\ \E k \in 1 .. Len(log) :
          /\ log[k].action = "updated"
          /\ Written(k).order_status # Get(log[k].read).order_status
          /\ Len(Written(k).status_history) = Len(Get(log[k].read).status_history) + 1
          /\ Items(Written(k)) # <<>>
          /\ \A n \in 1 .. Len(Items(Written(k))) :
                Entries(Items(Written(k))[n].status_history) =
                    Entries(Items(Get(log[k].read))[n].status_history)
    /\ \E k \in 1 .. Len(log) :
          /\ log[k].action = "updated"
          /\ Entries(Written(k).status_history) =
                Entries(Get(log[k].read).status_history)
          /\ Items(Written(k)) # <<>>
          /\ Len(Items(Written(k))[1].status_history) =
                Len(Items(Get(log[k].read))[1].status_history) + 1

\* C7: under any interleaving every stored history only grows by appending:
\* an entry stored at some position stays at that position.
C7_AppendOnlyStep ==
    \A i \in 1 .. Len(store) :
        /\ IsPrefix(Entries(store[i].status_history),
                    Entries(store'[i].status_history))
        /\ \A n \in 1 .. Len(Items(store[i])) :
              /\ n <= Len(Items(store'[i]))
              /\ IsPrefix(Entries(Items(store[i])[n].status_history),
                          Entries(Items(store'[i])[n].status_history))

C7_AppendOnly == [][C7_AppendOnlyStep]_vars

\* calls j and k both found the same stored state and both returned
\* "updated", k after j
Raced(j, k) ==
    /\ j < k
    /\ log[j].action = "updated" /\ log[k].action = "updated"
    /\ log[j].read = log[k].read

\* history h holds an entry appended by the call that sampled time t
HasEntryOf(h, t) == \E i \in 1 .. Len(h) : h[i].timestamp.ms = t

\* C8: when two calls read the same stored state of an order and both return
\* "updated", the replace of the later one stores that state plus its own
\* appends only: no history of the stored order holds an entry of the earlier
\* call.
C8_LaterReplaceClobbers ==
    \A j, k \in 1 .. Len(log) :
        Raced(j, k) =>
            LET doc == Written(k)
                old == Get(log[k].read)
            IN  /\ ~HasEntryOf(doc.status_history, log[j].time)
                /\ \A n \in 1 .. Len(Items(doc)) :
                      ~HasEntryOf(Items(doc)[n].status_history, log[j].time)
                /\ Len(doc.status_history) <= Len(old.status_history) + 1

\* two calls raced, the earlier one had stored a top-level entry of its own,
\* and the order as stored now holds the entry of the later call and not
\* that of the earlier one
C8_Witness ==
    \E j, k \in 1 .. Len(log) :
        /\ Raced(j, k)
        /\ HasEntryOf(Written(j).status_history, log[j].time)
        /\ store[Get(log[k].read)._id] = Written(k)
        /\ HasEntryOf(Written(k).status_history, log[k].time)
        /\ ~HasEntryOf(Written(k).status_history, log[j].time)

\* C9: the store never holds two documents with the same order_id.
C9_OneDocPerOrderId ==
    \A i, j \in 1 .. Len(store) : i # j => store[i].order_id # store[j].order_id

Last(h) == h[Len(h)]

\* the status a call with desired state d asks of the stored sub-order sub:
\* that of the partial with its suborder_id, if d has one that carries a status
WantedItemStatus(sub, d) ==
    LET ps == IF IsSome(NewItems(d)) THEN Get(NewItems(d)) ELSE <<>>
        hits == {i \in 1 .. Len(ps) :
                    ps[i].suborder_id = sub.suborder_id /\ ~Falsy(ps[i].item_status)}
    IN  IF hits = {} THEN sub.item_status
        ELSE ps[CHOOSE i \in hits : TRUE].item_status

\* status s1 and history h1 are status s0 and history h0 after a call of
\* source src at time t moved the status to want (or left it, if want = s0)
Moved(s0, h0, s1, h1, want, t, src) ==
    /\ s1 = want
    /\ Entries(h1) =
          IF want = s0 THEN Entries(h0)
          ELSE Append(Entries(h0),
                      [old_status |-> IF s0 = NoStatus THEN Null ELSE s0,
                       new_status |-> want, source |-> src, time |-> t])

\* new is old with every mutation of call c: the main status with its entry,
\* each sub-order status with its entry, the pushed credit note, last_updated
AllApplied(old, new, c) ==
    /\ new._id = old._id /\ new.order_id = old.order_id
    /\ Moved(old.order_status, old.status_history,
             new.order_status, new.status_history,
             IF Falsy(c.desired.order_status) THEN old.order_status
             ELSE c.desired.order_status,
             c.currentTime, c.source)
    /\ Len(Items(new)) = Len(Items(old))
    /\ IsSome(new.order_items) = IsSome(old.order_items)
    /\ \A n \in 1 .. Len(Items(old)) :
          /\ Items(new)[n].suborder_id = Items(old)[n].suborder_id
          /\ Moved(Items(old)[n].item_status, Items(old)[n].status_history,
                   Items(new)[n].item_status, Items(new)[n].status_history,
                   WantedItemStatus(Items(old)[n], c.desired),
                   c.currentTime, c.source)
    /\ new.returns =
          IF IsSome(c.push)
          THEN Some(Append(IF IsSome(old.returns) THEN Get(old.returns) ELSE <<>>,
                           Get(c.push)))
          ELSE old.returns
    /\ new.last_updated = c.currentTime

\* every stored status is the new_status of the last entry of its history
StatusHasEntry(st) ==
    \A i \in 1 .. Len(st) :
        /\ st[i].status_history # <<>>
        /\ Last(st[i].status_history).new_status = Bson(st[i].order_status)
        /\ \A n \in 1 .. Len(Items(st[i])) :
              /\ Items(st[i])[n].status_history # <<>>
              /\ Last(Items(st[i])[n].status_history).new_status =
                    Items(st[i])[n].item_status

C10_AllOrNothingStep ==
    /\ \/ store' = store
       \/ \E p \in Procs :
             /\ pc[p] = "insert" /\ pc'[p] = "idle"
             /\ Len(store') = Len(store) + 1
             /\ SubSeq(store', 1, Len(store)) = store
       \/ \E p \in Procs :
             /\ pc[p] = "replace" /\ pc'[p] = "idle"
             /\ Len(store') = Len(store)
             /\ \A i \in 1 .. Len(store) :
                   IF i = Get(existing[p])._id
                   THEN AllApplied(Get(existing[p]), store'[i], call[p])
                   ELSE store'[i] = store[i]
    /\ StatusHasEntry(store')

\* C10: a call on an existing order changes the store in one step or not at
\* all: a step that changes a stored order leaves it as the order the call
\* read with every mutation of the call applied (main status and its entry,
\* each sub-order status and its entry, the push, last_updated); no stored
\* state shows a status without its history entry.
C10_AllOrNothing == [][C10_AllOrNothingStep]_vars

\* a mark-return call has just replaced the order: main status, the status
\* of sub-order 1 and the credit note went in together
C10_Witness ==
    /\ log # <<>>
    /\ LET e == Last(log)
       IN  /\ e.action = "updated"
           /\ Len(e.changes) >= 3
           /\ store = e.stored
           /\ LET old == Get(e.read)
                  new == store[old._id]
              IN  /\ old.order_status # "Returned" /\ new.order_status = "Returned"
                  /\ Last(new.status_history).new_status = "Returned"
                  /\ Last(new.status_history).timestamp.ms = e.time
                  /\ Items(old)[1].item_status # "Returned"
                  /\ Items(new)[1].item_status = "Returned"
                  /\ Last(Items(new)[1].status_history).timestamp.ms = e.time
                  /\ IsSome(new.returns) /\ ~IsSome(old.returns)
                  /\ new.last_updated = e.time

----------------------------------------------------------------------------
(* Properties of one order with several sub-orders (ItemSpec) *)

\* the stored sub-orders whose status the desired state d asks to change
ChangedSubs(old, d) ==
    {n \in 1 .. Len(Items(old)) :
        WantedItemStatus(Items(old)[n], d) # Items(old)[n].item_status}

\* the desired state d asks to change the top-level status
MainChanged(old, d) == ~Falsy(d.order_status) /\ d.order_status # old.order_status

\* sub-order n has the same status and the same history entries in a and b
SameSub(a, b, n) ==
    /\ Items(a)[n].item_status = Items(b)[n].item_status
    /\ Entries(Items(a)[n].status_history) = Entries(Items(b)[n].status_history)

\* the top-level status and history entries are the same in a and b
SameMain(a, b) ==
    /\ a.order_status = b.order_status
    /\ Entries(a.status_history) = Entries(b.status_history)

\* C11: a call that differs from the stored order only in the item_status of
\* one sub-order A appends exactly one entry to A's history and leaves every
\* other sub-order's status and history and the top-level status and history
\* as they were; a call that differs only in the top-level order_status leaves
\* every sub-order's status and history as they were.
C11_SubOrdersIndependent ==
    \A k \in 1 .. Len(log) :
        IsSome(log[k].read) =>
            LET old == Get(log[k].read)
                new == Written(k)
                d == log[k].desired
            IN  /\ Len(Items(new)) = Len(Items(old))
                /\ \A a \in 1 .. Len(Items(old)) :
                      (~MainChanged(old, d) /\ ChangedSubs(old, d) = {a}) =>
                          /\ Entries(Items(new)[a].status_history) =
                                Append(Entries(Items(old)[a].status_history),
                                       [old_status |-> Items(old)[a].item_status,
                                        new_status |-> Items(new)[a].item_status,
                                        source |-> log[k].source,
                                        time |-> log[k].time])
                          /\ Items(new)[a].item_status # Items(old)[a].item_status
                          /\ \A b \in 1 .. Len(Items(old)) :
                                b # a => SameSub(new, old, b)
                          /\ SameMain(new, old)
                /\ (MainChanged(old, d) /\ ChangedSubs(old, d) = {}) =>
                      /\ Len(new.status_history) = Len(old.status_history) + 1
                      /\ \A n \in 1 .. Len(Items(old)) : SameSub(new, old, n)

\* on an order with two sub-orders, one call changed sub-order 1 alone and
\* another changed the top-level status alone
C11_Witness ==
    /\ \E k \in 1 .. Len(log) :
          /\ log[k].action = "updated"
          /\ Len(Items(Get(log[k].read))) = 2
          /\ ~MainChanged(Get(log[k].read), log[k].desired)
          /\ ChangedSubs(Get(log[k].read), log[k].desired) = {1}
          /\ Len(Items(Written(k))[1].status_history) = 2
          /\ Len(Items(Written(k))[2].status_history) = 1
    /\ \E k \in 1 .. Len(log) :
          /\ log[k].action = "updated"
          /\ Len(Items(Get(log[k].read))) = 2
          /\ MainChanged(Get(log[k].read), log[k].desired)
          /\ ChangedSubs(Get(log[k].read), log[k].desired) = {}
          /\ Len(Written(k).status_history) = 2

\* the partials of desired state d
Partials(d) == IF IsSome(NewItems(d)) THEN Get(NewItems(d)) ELSE <<>>

\* none of the calls j+1 .. k carries a reference_code
NoReferenceCodeIn(j, k) ==
    \A m \in j + 1 .. k : log[m].desired.reference_code = None

\* none of the calls j+1 .. k carries a sku for sub-order id
NoSkuIn(j, k, id) ==
    \A m \in j + 1 .. k :
        \A i \in 1 .. Len(Partials(log[m].desired)) :
            Partials(log[m].desired)[i].suborder_id = id =>
                Partials(log[m].desired)[i].sku = None

\* C12: a field of the document that a call inserted, other than the status,
\* history, returns and last_updated fields, that no later call carries has
\* the value it was inserted with after any number of later calls: the
\* top-level reference_code and the sku of each sub-order.
C12_OtherFieldsKept ==
    \A j \in 1 .. Len(log) :
        log[j].action = "inserted" =>
            LET id == Len(log[j].stored)
                made == log[j].stored[id]
            IN  \A k \in j .. Len(log) :
                    LET now == log[k].stored[id]
                    IN  /\ NoReferenceCodeIn(j, k) =>
                              now.reference_code = made.reference_code
                        /\ Len(Items(now)) = Len(Items(made))
                        /\ \A n \in 1 .. Len(Items(made)) :
                              NoSkuIn(j, k, Items(made)[n].suborder_id) =>
                                  /\ Items(now)[n].suborder_id = Items(made)[n].suborder_id
                                  /\ Items(now)[n].sku = Items(made)[n].sku

\* the order was inserted with reference_code "REF-1" and sku "sku-a" on
\* sub-order 1, two later calls that carry neither have both updated it, and
\* it still holds both values
C12_Witness ==
    /\ Len(log) = 3
    /\ log[1].action = "inserted"
    /\ log[2].action = "updated" /\ log[3].action = "updated"
    /\ NoReferenceCodeIn(1, 3) /\ NoSkuIn(1, 3, 1)
    /\ log[1].stored[1].reference_code = Some("REF-1")
    /\ store[1].reference_code = Some("REF-1")
    /\ Items(store[1])[1].sku = Some("sku-a")
    /\ store[1].last_updated = log[3].time

ReturnsOf(doc) == IF IsSome(doc.returns) THEN Get(doc.returns) ELSE <<>>

\* the document the k-th returned call left: the one it inserted, or the one
\* under the _id it had read
Left(k) ==
    IF IsSome(log[k].read) THEN Written(k) ELSE log[k].stored[Len(log[k].stored)]

\* C13: a call that carries a credit note to push leaves the order with a
\* returns sequence one element longer than before, the credit note last
\* (length 1 if the order or the sequence did not exist), on the insert
\* branch as on the update branch.
C13_PushAddsOne ==
    \A k \in 1 .. Len(log) :
        IsSome(log[k].push) =>
            LET before == IF IsSome(log[k].read)
                          THEN ReturnsOf(Get(log[k].read)) ELSE <<>>
            IN  ReturnsOf(Left(k)) = Append(before, Get(log[k].push))

\* C14: a call on an existing order that carries options.set leaves the
\* assignment applied: after a tracking update for a stored sub-order, that
\* sub-order's tracking_data is the tracking payload received.
C14_SetApplied ==
    \A k \in 1 .. Len(log) :
        (IsSome(log[k].read) /\ IsSome(log[k].set)) =>
            \A n \in 1 .. Len(Items(Left(k))) :
                Items(Left(k))[n].suborder_id = Get(log[k].set).suborder_id =>
                    Items(Left(k))[n].tracking_data = log[k].set

\* C15: on the update path, every field other than item_status of a partial
\* whose suborder_id matches a stored sub-order is written onto that
\* sub-order, whether or not its status changed: the partial's sku is the
\* stored sku after the call.
C15_PartialFieldsMerged ==
    \A k \in 1 .. Len(log) :
        IsSome(log[k].read) =>
            \A i \in 1 .. Len(Partials(log[k].desired)) :
                LET part == Partials(log[k].desired)[i]
                    n == FindSub(Items(Get(log[k].read)), part.suborder_id)
                IN  (n # 0 /\ IsSome(part.sku)) => Items(Left(k))[n].sku = part.sku

\* C16: the document a call inserts carries created_at and last_updated,
\* both the time of that call.
C16_InsertStampsTimes ==
    \A k \in 1 .. Len(log) :
        log[k].action = "inserted" =>
            /\ Left(k).created_at = log[k].time
            /\ Left(k).last_updated = log[k].time

C17_LastUpdatedStep ==
    \A i \in 1 .. Len(store) : store'[i].last_updated >= store[i].last_updated

\* C17: under any interleaving of calls on one order the stored last_updated
\* never decreases, also when a call that sampled its time earlier writes
\* after a call that sampled it later.
C17_LastUpdatedMonotonic == [][C17_LastUpdatedStep]_vars

C18_WritesStep ==
    IF Len(log') = Len(log)
    THEN store' = store
    ELSE LET e == Last(log')
         IN  /\ Len(log') = Len(log) + 1
             /\ e.action = "inserted" =>
                   /\ ~IsSome(e.read)
                   /\ Len(store') = Len(store) + 1
                   /\ SubSeq(store', 1, Len(store)) = store
             /\ e.action = "updated" =>
                   /\ IsSome(e.read)
                   /\ Len(store') = Len(store)
                   /\ \A i \in 1 .. Len(store) :
                         IF i = Get(e.read)._id
                         THEN store'[i].last_updated = e.time /\ store'[i] # store[i]
                         ELSE store'[i] = store[i]
             /\ e.action = "no_change" => store' = store
             /\ e.action \in {"inserted", "updated", "no_change"}

\* C18: a call writes to the store only in the step in which it returns:
\* one insert when it returns "inserted", one replace of the document under
\* the _id it had read when it returns "updated", nothing when it returns
\* "no_change"; no other step of a call writes.
C18_OneWritePerCall == [][C18_WritesStep]_vars

\* three calls have returned, one with each action
C18_Witness ==
    /\ \E k \in 1 .. Len(log) : log[k].action = "inserted"
    /\ \E k \in 1 .. Len(log) : log[k].action = "updated"
    /\ \E k \in 1 .. Len(log) : log[k].action = "no_change"

\* C19: every stored order has a non-empty top-level status_history whose
\* first entry has old_status null.
C19_TopHistorySeeded ==
    \A i \in 1 .. Len(store) :
        /\ store[i].status_history # <<>>
        /\ store[i].status_history[1].old_status = Null

\* an order created by the order-tracking webhook, without an order_status,
\* has since been updated and still starts its history with the seed entry
C19_Witness ==
    \E i \in 1 .. Len(store) :
        /\ Len(store[i].status_history) >= 2
        /\ store[i].status_history[1].old_status = "null"
        /\ store[i].status_history[1].source = "created-by-order-tracking-webhook"
        /\ store[i].last_updated # NoTime

\* every entry of history h after the first has an old_status other than null
NullOnlyFirst(h) == \A n \in 2 .. Len(h) : h[n].old_status # Null

\* C20: in every stored top-level or sub-order status_history old_status is
\* null in the first entry only, also for an order created without an
\* order_status that later receives its first one.
C20_NullOldStatusOnlyFirst ==
    \A i \in 1 .. Len(store) :
        /\ NullOnlyFirst(store[i].status_history)
        /\ \A n \in 1 .. Len(Items(store[i])) :
              NullOnlyFirst(Items(store[i])[n].status_history)

\* every sub-order of a document, under order_items and under suborders
AllSubs(doc) ==
    (IF IsSome(doc.order_items) THEN Get(doc.order_items) ELSE <<>>)
        \o (IF IsSome(doc.suborders) THEN Get(doc.suborders) ELSE <<>>)

SubIds(doc) == [n \in 1 .. Len(Items(doc)) |-> Items(doc)[n].suborder_id]

\* desired state d has a partial whose suborder_id is on no sub-order of old
HasUnknownPartial(old, d) ==
    \E i \in 1 .. Len(Partials(d)) :
        FindSub(Items(old), Partials(d)[i].suborder_id) = 0

\* C22: a call on an existing order never adds a sub-order: the stored
\* suborder_ids are the same after the call as before, a partial whose
\* suborder_id matches no stored sub-order is ignored, and a call that asks
\* nothing else (no status to change, nothing to push) returns "no_change"
\* and writes nothing.
C22_NoSubOrderAdded ==
    \A k \in 1 .. Len(log) :
        IsSome(log[k].read) =>
            LET old == Get(log[k].read)
                d == log[k].desired
            IN  /\ SubIds(Left(k)) = SubIds(old)
                /\ ( /\ ~MainChanged(old, d)
                     /\ ChangedSubs(old, d) = {}
                     /\ ~IsSome(log[k].push) ) =>
                       /\ log[k].action = "no_change"
                       /\ log[k].stored = StoreBefore(k)

\* a tracking update for sub-order 3 reached an order stored with sub-orders
\* 1 and 2: nothing was written
C22_Witness ==
    \E k \in 1 .. Len(log) :
        /\ IsSome(log[k].read)
        /\ SubIds(Get(log[k].read)) = <<1, 2>>
        /\ HasUnknownPartial(Get(log[k].read), log[k].desired)
        /\ Partials(log[k].desired)[1].suborder_id = 3
        /\ ~Falsy(Partials(log[k].desired)[1].item_status)
        /\ log[k].action = "no_change"
        /\ SubIds(store[1]) = <<1, 2>>

\* the arguments and currentTime of the k-th returned call
CallOf(k) ==
    [orderId |-> log[k].orderId, desired |-> log[k].desired,
     source |-> log[k].source, push |-> log[k].push, set |-> log[k].set,
     currentTime |-> log[k].time]

\* desired state d with its partials reordered by the permutation f
Reordered(d, f) ==
    LET ps == [i \in 1 .. Len(Partials(d)) |-> Partials(d)[f[i]]]
    IN  IF IsSome(d.order_items) THEN [d EXCEPT !.order_items = Some(ps)]
        ELSE IF IsSome(d.suborders) THEN [d EXCEPT !.suborders = Some(ps)]
        ELSE d

\* the partials of d have pairwise different suborder_ids
DistinctIds(d) ==
    \A i, j \in 1 .. Len(Partials(d)) :
        i # j => Partials(d)[i].suborder_id # Partials(d)[j].suborder_id

\* C23: sub-orders are matched by suborder_id, never by position: for every
\* reordering of the partials of a call on an existing order (distinct
\* suborder_ids) the update path yields the same sub-order statuses and the
\* same entries in every sub-order history, namely the ones the call stored;
\* and a stored sub-order changes only if a partial carries its suborder_id.
C23_MatchedById ==
    \A k \in 1 .. Len(log) :
        (IsSome(log[k].read) /\ DistinctIds(log[k].desired)) =>
            LET old == Get(log[k].read)
                d == log[k].desired
                new == Left(k)
            IN  /\ \A f \in Permutations(1 .. Len(Partials(d))) :
                      LET alt == UpdateDoc(old, [CallOf(k) EXCEPT
                                                    !.desired = Reordered(d, f)]).doc
                      IN  /\ Len(Items(alt)) = Len(Items(new))
                          /\ \A n \in 1 .. Len(Items(new)) : SameSub(alt, new, n)
                /\ \A n \in 1 .. Len(Items(old)) :
                      ~SameSub(new, old, n) =>
                          \E i \in 1 .. Len(Partials(d)) :
                              /\ Partials(d)[i].suborder_id = Items(old)[n].suborder_id
                              /\ Partials(d)[i].item_status = Items(new)[n].item_status

\* a call whose partials name sub-order 2 first and sub-order 1 second has
\* updated an order that stores sub-order 1 first: each status went to the
\* sub-order with the same id
C23_Witness ==
    \E k \in 1 .. Len(log) :
        /\ log[k].action = "updated"
        /\ SubIds(Get(log[k].read)) = <<1, 2>>
        /\ Len(Partials(log[k].desired)) = 2
        /\ Partials(log[k].desired)[1].suborder_id = 2
        /\ Partials(log[k].desired)[1].item_status = "Shipped"
        /\ Partials(log[k].desired)[2].item_status = "Packed"
        /\ Items(Left(k))[1].item_status = "Packed"
        /\ Items(Left(k))[2].item_status = "Shipped"
        /\ Items(Get(log[k].read))[1].item_status # "Packed"
        /\ Items(Get(log[k].read))[2].item_status # "Shipped"

\* the entries of history h are in the order in which the calls that
\* appended them were invoked (a call samples currentTime when it is invoked)
InCallOrder(h) ==
    \A i, j \in 1 .. Len(h) : i < j => h[i].timestamp.ms < h[j].timestamp.ms

\* C24: also when calls on one order overlap, the entries of its stored
\* top-level status_history appear in the order in which the calls that
\* produced them were invoked.
C24_HistoryInCallOrder ==
    \A i \in 1 .. Len(store) : InCallOrder(store[i].status_history)

----------------------------------------------------------------------------
(* The webhook handlers *)

MaxRequests == 2   \* webhook requests received in one behaviour

\* process.env.EASYECOM_WEBHOOK_TOKEN
EASYECOM_WEBHOOK_TOKEN == "secret"

\* the two headers authenticateWebhook reads, each possibly absent; the value
\* of an Authorization header is its scheme, a space, and the rest
Headers(access, auth) == [access_token |-> access, authorization |-> auth]
Authorization(scheme, rest) == [scheme |-> scheme, rest |-> rest]

\* providedToken: the Access-token header, or when that is absent or empty
\* what follows "Bearer " in the Authorization header
ProvidedToken(h) ==
    IF (~IsSome(h.access_token) \/ Get(h.access_token) = "")
          /\ IsSome(h.authorization)
          /\ Get(h.authorization).scheme = "Bearer"
    THEN Some(Get(h.authorization).rest)
    ELSE h.access_token

\* a middleware that lets every request through that carries some token
authenticateWebhook_AnyToken(h) ==
    LET providedToken == ProvidedToken(h)
    IN  IF ~IsSome(providedToken) \/ Get(providedToken) = "" THEN Some(401)
        ELSE None

\* authenticateWebhook: the status it answers with, or None when it calls
\* next()
authenticateWebhook(h) ==
    LET providedToken == ProvidedToken(h)
    IN  IF ~IsSome(providedToken) \/ Get(providedToken) = "" THEN Some(401)
        ELSE IF Get(providedToken) # EASYECOM_WEBHOOK_TOKEN THEN Some(403)
        ELSE None

\* an order_id that is a string with no leading digits
TextId == [t |-> "text", v |-> 0]

\* parseInt(id, 10): the number, or None for NaN
ParseInt(id) == IF id.t \in {"number", "string"} THEN Some(id.v) ELSE None

\* a request body: a JSON array of entries ("array"), an object holding the
\* entries under the key the route expects ("keyed"), an array whose first
\* element is the array of entries ("nested"), or an object without that key
\* ("object"; for order-tracking its one entry is the object itself)
Body(kind, entries) == [kind |-> kind, entries |-> entries]

Request(route, headers, body) == [route |-> route, headers |-> headers, body |-> body]

\* a credit note of the mark-return webhook: its order and, possibly, the
\* list of returned items
CreditNoteOf(n, oid, items) == [credit_note_id |-> n, order_id |-> oid, items |-> items]

\* a tracking update of the order-tracking webhook
TrackingOf(oid, sub, st) ==
    [orderId |-> oid, suborder_id |-> sub, currentShippingStatus |-> st]

\* the routes whose handler passes each entry of the batch to the sync as it is
OrderRoutes == {"create-order", "confirm-order", "ready-to-dispatch",
                "manifested", "cancel-order", "fetch-orders"}

\* an element of the batch that is not an entry of the route: every field
\* the loop reads from it is absent
NoEntry(route) ==
    IF route = "order-tracking" THEN TrackingOf(NoId, NoId, NoStatus)
    ELSE IF route = "mark-return" THEN CreditNoteOf(0, NoId, None)
    ELSE Desired(NoId, NoStatus, None)

\* a batch handler that hands an ill-shaped body to its loop as an empty batch
Batch_Lenient(route, body) ==
    IF route = "order-tracking"
    THEN IF body.kind = "array" THEN Some(body.entries)
         ELSE IF body.kind = "object" THEN Some(<<Head(body.entries)>>)
         ELSE Some(<<NoEntry(route)>>)
    ELSE IF body.kind = "object" THEN Some(<<>>)
    ELSE Some(body.entries)

\* the batch a handler takes from the body, or None when it answers 400
Batch(route, body) ==
    IF route = "order-tracking"
    THEN IF body.kind = "array" THEN Some(body.entries)
         ELSE IF body.kind = "object" THEN Some(<<Head(body.entries)>>)
         ELSE Some(<<NoEntry(route)>>)
    ELSE IF route = "mark-return"
    THEN IF body.kind \in {"nested", "keyed"} THEN Some(body.entries) ELSE None
    ELSE IF body.kind \in {"array", "keyed"} THEN Some(body.entries)
    ELSE IF body.kind = "nested" THEN Some(<<NoEntry(route)>>)
    ELSE None

\* the status a handler answers with when its loop has run to the end
Done(route) == IF route \in {"create-order", "fetch-orders"} THEN 201 ELSE 200

\* what one turn of the loop does with entry e: it pushes a failure and
\* continues ("skip"), it throws ("throw"), or it calls the sync ("call")
Skipped(err) == [kind |-> "skip", error |-> err, in |-> None]
Thrown(err) == [kind |-> "throw", error |-> err, in |-> None]
Called(in) == [kind |-> "call", error |-> "", in |-> Some(in)]

EntryStep(route, e) ==
    IF route = "mark-return"
    THEN LET orderId == ParseInt(e.order_id)
         IN  IF ~IsSome(orderId) THEN Skipped("Invalid order_id")
             ELSE IF ~IsSome(e.items) THEN Thrown("TypeError")
             ELSE Called(Input(Get(orderId),
                               Desired(NumId(Get(orderId)), "Returned",
                                       Some([i \in 1 .. Len(Get(e.items)) |->
                                               Partial(Get(e.items)[i].suborder_id,
                                                       "Returned")])),
                               "mark-return-webhook", Some(e)))
    ELSE IF route = "order-tracking"
    THEN LET orderId == ParseInt(e.orderId)
             subOrderId == ParseInt(e.suborder_id)
             newStatus == e.currentShippingStatus
         IN  IF ~IsSome(orderId) \/ ~IsSome(subOrderId) \/ Falsy(newStatus)
             THEN Skipped("Invalid tracking data")
             ELSE Called(InputWith(Get(orderId),
                                   Desired(NumId(Get(orderId)), NoStatus,
                                           Some(<<Partial(Get(subOrderId), newStatus)>>)),
                                   "order-tracking-webhook", None, Some(e)))
    ELSE LET orderId == ParseInt(e.order_id)
         IN  IF ~IsSome(orderId) THEN Skipped("Invalid order_id")
             ELSE Called(Input(Get(orderId), e, route \o "-webhook", None))

\* the entries of `results`: a failure, or the result of a sync call
Failure(err) == [order_id |-> None, action |-> None, error |-> Some(err)]
Result(orderId, action) == [order_id |-> Some(orderId), action |-> Some(action), error |-> None]

\* the loop runs over the entries it skips, up to the first entry that
\* needs a sync call or throws, or to the end of the batch
RECURSIVE Drain(_, _, _)
Drain(route, rest, results) ==
    IF rest = <<>> THEN [rest |-> rest, results |-> results]
    ELSE LET s == EntryStep(route, Head(rest))
         IN  IF s.kind = "skip"
             THEN Drain(route, Tail(rest), Append(results, Failure(s.error)))
             ELSE [rest |-> rest, results |-> results]

\* the handler of request p answers r and ends
Answer(p, r, status, details, error) ==
    /\ resp' = Append(resp, [request |-> r, status |-> status,
                             details |-> details, error |-> error,
                             processedCount |->
                                 IF IsSome(details) THEN Some(Len(Get(details)))
                                 ELSE None])
    /\ req' = [req EXCEPT ![p] = NoReq]
    /\ pc' = [pc EXCEPT ![p] = "idle"]
    /\ call' = [call EXCEPT ![p] = NoCall]
    /\ UNCHANGED clock

\* the loop of request p runs on with the entries in `rest`: to the next
\* sync call, to a throw that the handler's catch answers, or to the end
Proceed(p, r, rest, results) ==
    LET d == Drain(r.route, rest, results)
    IN  IF d.rest = <<>> THEN Answer(p, r, Done(r.route), Some(d.results), None)
        ELSE LET s == EntryStep(r.route, Head(d.rest))
             IN  IF s.kind = "throw" THEN Answer(p, r, 500, None, Some(s.error))
                 ELSE /\ clock' = clock + 1
                      /\ call' = [call EXCEPT ![p] =
                                     [orderId |-> Get(s.in).orderId,
                                      desired |-> Get(s.in).desired,
                                      source |-> Get(s.in).source,
                                      push |-> Get(s.in).push,
                                      set |-> Get(s.in).set,
                                      currentTime |-> clock + 1]]
                      /\ pc' = [pc EXCEPT ![p] = "find"]
                      /\ req' = [req EXCEPT ![p] =
                                    [request |-> Some(r), rest |-> Tail(d.rest),
                                     results |-> d.results]]
                      /\ UNCHANGED resp

\* a request arrives: the middleware, the shape check, the empty check, and
\* the loop up to its first sync call
Receive(p, r) ==
    /\ req[p] = NoReq
    /\ pc[p] = "idle"
    /\ Len(resp) < MaxRequests
    /\ LET denied == authenticateWebhook(r.headers)
           batch == Batch(r.route, r.body)
       IN  IF IsSome(denied) THEN Answer(p, r, Get(denied), None, None)
           ELSE IF ~IsSome(batch) THEN Answer(p, r, 400, None, None)
           ELSE IF Get(batch) = <<>> THEN Answer(p, r, 200, None, None)
           ELSE Proceed(p, r, Get(batch), <<>>)
    /\ UNCHANGED <<store, existing, pending, changes, log>>
    /\ UNCHANGED cpVars

\* a handler that puts each result in front of the earlier ones
Resume_Unshift(p, action, chg, rd, st) ==
    /\ log' = Append(log, Outcome(p, action, chg, rd, st))
    /\ existing' = [existing EXCEPT ![p] = None]
    /\ pending' = [pending EXCEPT ![p] = NoDoc]
    /\ changes' = [changes EXCEPT ![p] = <<>>]
    /\ Proceed(p, Get(req[p].request), req[p].rest,
               <<Result(call[p].orderId, action)>> \o req[p].results)

\* the sync call of request p returns `action` to the handler, which pushes
\* the result and runs on
Resume(p, action, chg, rd, st) ==
    /\ log' = Append(log, Outcome(p, action, chg, rd, st))
    /\ existing' = [existing EXCEPT ![p] = None]
    /\ pending' = [pending EXCEPT ![p] = NoDoc]
    /\ changes' = [changes EXCEPT ![p] = <<>>]
    /\ Proceed(p, Get(req[p].request), req[p].rest,
               Append(req[p].results, Result(call[p].orderId, action)))

HandlerFindNoChange(p) ==
    /\ pc[p] = "find"
    /\ IsSome(req[p].request)
    /\ \E i \in Matching(store, call[p].orderId) :
          /\ ~UpdateDoc(store[i], call[p]).needsUpdate
          /\ Resume(p, "no_change", <<>>, Some(store[i]), store)
    /\ UNCHANGED store
    /\ UNCHANGED cpVars

HandlerInsertOne(p) ==
    /\ pc[p] = "insert"
    /\ IsSome(req[p].request)
    /\ LET st == Append(store, [pending[p] EXCEPT !._id = Len(store) + 1])
       IN  /\ store' = st
           /\ Resume(p, "inserted", changes[p], existing[p], st)
    /\ UNCHANGED cpVars

HandlerReplaceOne(p) ==
    /\ pc[p] = "replace"
    /\ IsSome(req[p].request)
    /\ LET st == [store EXCEPT ![Get(existing[p])._id] = pending[p]]
       IN  /\ store' = st
           /\ Resume(p, "updated", changes[p], existing[p], st)
    /\ UNCHANGED cpVars

\* a sync call whose catch swallows the error and reports no_change
StoreRejects_Swallowed(p) ==
    /\ pc[p] \in {"find", "insert", "replace"}
    /\ IsSome(req[p].request)
    /\ Resume(p, "no_change", <<>>, existing[p], store)
    /\ UNCHANGED store
    /\ UNCHANGED cpVars

\* a handler that catches the error inside the loop, reports the entry as
\* failed and runs on with the rest of the batch
StoreRejects_Continue(p) ==
    /\ pc[p] \in {"find", "insert", "replace"}
    /\ IsSome(req[p].request)
    /\ log' = Append(log, Outcome(p, "error", <<>>, existing[p], store))
    /\ existing' = [existing EXCEPT ![p] = None]
    /\ pending' = [pending EXCEPT ![p] = NoDoc]
    /\ changes' = [changes EXCEPT ![p] = <<>>]
    /\ Proceed(p, Get(req[p].request), req[p].rest,
               Append(req[p].results, Failure("store error")))
    /\ UNCHANGED store
    /\ UNCHANGED cpVars

\* the database handle is missing, or findOne, insertOne or replaceOne
\* rejects: the sync rethrows and the handler's catch answers
StoreRejects(p) ==
    /\ pc[p] \in {"find", "insert", "replace"}
    /\ IsSome(req[p].request)
    /\ log' = Append(log, Outcome(p, "error", <<>>, existing[p], store))
    /\ existing' = [existing EXCEPT ![p] = None]
    /\ pending' = [pending EXCEPT ![p] = NoDoc]
    /\ changes' = [changes EXCEPT ![p] = <<>>]
    /\ Answer(p, Get(req[p].request), 500, None, Some("store error"))
    /\ UNCHANGED store
    /\ UNCHANGED cpVars

\* the headers a request may carry
GoodHeaders == Headers(Some(EASYECOM_WEBHOOK_TOKEN), None)

SomeHeaders ==
    {GoodHeaders,
     Headers(None, None),
     Headers(Some("other"), None),
     Headers(Some(""), Some(Authorization("Bearer", EASYECOM_WEBHOOK_TOKEN))),
     Headers(None, Some(Authorization("Bearer", "other"))),
     Headers(None, Some(Authorization("Basic", EASYECOM_WEBHOOK_TOKEN))),
     Headers(Some("other"), Some(Authorization("Bearer", EASYECOM_WEBHOOK_TOKEN)))}

\* the entries batches are made of
OrderA == Desired(NumId(555), "Created", Some(<<Partial(1, "Created")>>))
OrderB == Desired(StrId(555), "Confirmed", None)
OrderC == Desired(NumId(100), "Confirmed", None)
OrderBad == Desired(TextId, "Confirmed", None)

NoteA == CreditNoteOf(1, NumId(555), Some(<<[suborder_id |-> 1]>>))
NoteNoItems == CreditNoteOf(2, NumId(555), None)
NoteBad == CreditNoteOf(3, NoId, Some(<<[suborder_id |-> 1]>>))

TrackA == TrackingOf(NumId(555), NumId(1), "Shipped")
TrackBad == TrackingOf(NumId(555), NumId(1), NoStatus)

\* the requests of the feed: every header combination on one confirm-order
\* batch, and with the right token well-formed, ill-formed and empty bodies
\* on an order route, on mark-return and on order-tracking
Requests ==
    {Request("confirm-order", h, Body("array", <<OrderB>>)) : h \in SomeHeaders}
    \cup
    {Request("create-order", GoodHeaders, b) :
        b \in {Body("array", <<OrderA>>),
               Body("array", <<OrderA, OrderB>>),
               Body("array", <<OrderBad, OrderA>>),
               Body("keyed", <<OrderA, OrderBad, OrderC>>),
               Body("keyed", <<OrderA, OrderB, OrderC>>),
               Body("keyed", <<>>),
               Body("object", <<>>)}}
    \cup
    {Request("mark-return", GoodHeaders, b) :
        b \in {Body("nested", <<NoteA>>),
               Body("keyed", <<NoteBad, NoteA>>),
               Body("keyed", <<NoteNoItems, NoteA>>),
               Body("array", <<NoteA>>),
               Body("object", <<>>),
               Body("nested", <<>>)}}
    \cup
    {Request("order-tracking", GoodHeaders, b) :
        b \in {Body("array", <<TrackBad, TrackA>>),
               Body("object", <<TrackA>>),
               Body("array", <<>>)}}

\* one webhook request at a time, each served to its response
HookNext ==
    \/ \E r \in Requests : Receive(1, r)
    \/ FindAbsent(1)
    \/ FindChanged(1)
    \/ HandlerFindNoChange(1)
    \/ HandlerInsertOne(1)
    \/ HandlerReplaceOne(1)
    \/ StoreRejects(1)

HookSpec == Init /\ [][HookNext]_vars

----------------------------------------------------------------------------
(* Properties of the webhook handlers (HookSpec) *)

\* the batch of the request that response k answers; <<>> when the request
\* never reached the loop
BatchOf(k) ==
    LET r == resp[k].request
        b == Batch(r.route, r.body)
    IN  IF IsSome(authenticateWebhook(r.headers)) \/ ~IsSome(b) THEN <<>> ELSE Get(b)

\* response k reports entry i as a per-entry failure / as synchronized
ReportsFailure(k, i) ==
    /\ IsSome(resp[k].details)
    /\ i <= Len(Get(resp[k].details))
    /\ IsSome(Get(resp[k].details)[i].error)

ReportsSync(k, i) ==
    /\ IsSome(resp[k].details)
    /\ i <= Len(Get(resp[k].details))
    /\ IsSome(Get(resp[k].details)[i].action)

\* C25: in a handler that loops over a batch, an entry that cannot be
\* processed (an unparseable order_id, a credit note without an items list,
\* tracking data without its fields) is reported as a per-entry failure, and
\* every other entry of the batch is synchronized and reported with its
\* action, whenever no store operation failed
C25_BadEntrySkipped ==
    \A k \in 1 .. Len(resp) :
        resp[k].error # Some("store error") =>
            \A i \in 1 .. Len(BatchOf(k)) :
                IF EntryStep(resp[k].request.route, BatchOf(k)[i]).kind = "call"
                THEN ReportsSync(k, i)
                ELSE ReportsFailure(k, i)

\* the step sends a response; Sent is that response
Sends == Len(resp') = Len(resp) + 1
Sent == resp'[Len(resp')]

\* the step starts or ends no sync call and touches nothing a call touches
NoSyncStep ==
    /\ \A p \in Procs : pc[p] = "idle" /\ pc'[p] = "idle"
    /\ UNCHANGED <<store, log, clock, call, existing, pending, changes>>

\* the body is neither an array nor an object with an array under the key
\* the route expects
IllShaped(r) == r.route # "order-tracking" /\ r.body.kind = "object"

\* C26: an authenticated request whose body is neither an array nor an
\* object with an array under the expected key is answered 400 in a step
\* that makes no sync call and reads and writes nothing; a request with an
\* empty batch is answered in such a step too
C26_Step ==
    Sends =>
        LET r == Sent.request
            batch == Batch(r.route, r.body)
        IN  ~IsSome(authenticateWebhook(r.headers)) =>
               /\ IllShaped(r) => Sent.status = 400 /\ NoSyncStep
               /\ (IsSome(batch) /\ Get(batch) = <<>>) =>
                      Sent.status = 200 /\ Sent.details = None /\ NoSyncStep

C26_BadShapeRejected == [][C26_Step]_vars

\* an ill-shaped body was answered 400 and an empty batch 200, and no sync
\* call has run
C26_Witness ==
    /\ \E k \in 1 .. Len(resp) :
          /\ IllShaped(resp[k].request)
          /\ ~IsSome(authenticateWebhook(resp[k].request.headers))
          /\ resp[k].status = 400
    /\ \E k \in 1 .. Len(resp) :
          /\ resp[k].request.body = Body("nested", <<>>)
          /\ resp[k].status = 200
    /\ log = <<>>
    /\ store = <<>>

\* the step ends the sync call request p was running
CallEnds(p) == pc[p] # "idle" /\ (pc'[p] = "idle" \/ call'[p] # call[p])

\* the call that ends failed: it ended as an error, or it ended while its
\* insertOne or replaceOne was outstanding and nothing was written
CallFailed(p) ==
    \/ log'[Len(log')].action = "error"
    \/ pc[p] \in {"insert", "replace"} /\ store' = store

\* C27: a sync call whose store read or write fails ends with the error and
\* returns no result with an action, the collection is what it was before
\* the failing step, and the webhook request it belongs to is answered with
\* a 5xx status and no details
C27_Step ==
    \A p \in Procs :
        (CallEnds(p) /\ CallFailed(p)) =>
            /\ store' = store
            /\ Len(log') = Len(log) + 1
            /\ log'[Len(log')].action = "error"
            /\ Sends
            /\ Sent.status \in 500 .. 599
            /\ Sent.details = None
            /\ pc'[p] = "idle"
            /\ req'[p] = NoReq

C27_StoreFailurePropagates == [][C27_Step]_vars

\* a batch whose first entry was written and whose second entry met a
\* failing store was answered 500
C27_Witness ==
    /\ Len(log) = 2
    /\ log[1].action = "inserted"
    /\ log[2].action = "error"
    /\ log[2].stored = log[1].stored
    /\ Len(resp) = 1
    /\ resp[1].status = 500
    /\ resp[1].error = Some("store error")

\* the token the request presents is the configured one
Authentic(r) == ProvidedToken(r.headers) = Some(EASYECOM_WEBHOOK_TOKEN)

\* C29: the handler of a guarded route runs only for a request whose token,
\* taken from the Access-token header or else from an Authorization header
\* of the form "Bearer <token>", equals EASYECOM_WEBHOOK_TOKEN: a request
\* being served is authentic, and a request that is not is answered 401 when
\* it carries no token and 403 otherwise, in a step that makes no sync call
\* and leaves the store as it was
C29_Step ==
    /\ \A p \in Procs : IsSome(req'[p].request) => Authentic(Get(req'[p].request))
    /\ Sends =>
          LET r == Sent.request
              token == ProvidedToken(r.headers)
          IN  /\ ~Authentic(r) =>
                    /\ Sent.status = IF token \in {None, Some("")} THEN 401 ELSE 403
                    /\ NoSyncStep
                    /\ UNCHANGED req
              /\ Authentic(r) => Sent.status \notin {401, 403}

C29_OnlyAuthenticated == [][C29_Step]_vars

\* requests without a token and with a wrong token were answered 401 and
\* 403, and nothing was stored or called
C29_Witness ==
    /\ \E k \in 1 .. Len(resp) :
          /\ ProvidedToken(resp[k].request.headers) = None
          /\ resp[k].status = 401
    /\ \E k \in 1 .. Len(resp) :
          /\ resp[k].request.headers =
                Headers(Some("other"),
                        Some(Authorization("Bearer", EASYECOM_WEBHOOK_TOKEN)))
          /\ resp[k].status = 403
    /\ store = <<>>
    /\ log = <<>>

----------------------------------------------------------------------------
(* The ClickPost integration (src/integrations/clickpost.js) *)

\* the headers validateToken reads
CpHeaders(key, auth) == [x_api_key |-> key, authorization |-> auth]

\* headers['x-api-key'] || headers['authorization']?.replace('Bearer ', '')
CpToken(h) ==
    IF IsSome(h.x_api_key) /\ Get(h.x_api_key) # "" THEN h.x_api_key
    ELSE IF ~IsSome(h.authorization) THEN None
    ELSE IF Get(h.authorization).scheme = "Bearer" THEN Some(Get(h.authorization).rest)
    ELSE Some(Get(h.authorization).scheme \o " " \o Get(h.authorization).rest)

\* validateToken of the production variant: TRUE when it returns, FALSE
\* when it throws (token !== CLICKPOST_WEBHOOK_TOKEN)
validateToken(h) == CpToken(h) = cpModule.token

\* validateToken of the dev variant: the 401 it sends, or None when it
\* returns true
devValidateToken(h) ==
    IF ~IsSome(CpToken(h)) \/ CpToken(h) = Some("")
    THEN Some([status |-> 401, error |-> "Missing authentication token"])
    ELSE IF CpToken(h) # cpModule.token
    THEN Some([status |-> 401, error |-> "Invalid authentication token"])
    ELSE None

\* the first lines of a route: the answer validateToken leads to (the dev
\* variant's own 401, the production variant's throw answered by the catch
\* of the route), or None when the route runs on
Denied(h) ==
    IF cpModule.instance = "dev" THEN devValidateToken(h)
    ELSE IF validateToken(h) THEN None
    ELSE Some([status |-> 500, error |-> "Invalid or missing webhook token"])

\* a waybill: `CPAWB${Date.now()}${awbCounter++}`
Awb(ms, n) == [ms |-> ms, n |-> n]

\* the empty text, and a waybill that generateAWB never makes
EmptyText == Awb(0, 0)
OtherAwb == Awb(0, 1)

\* a waybill as a request spells it: the text and whether blanks surround it
Spelled(text, pad) == [text |-> text, pad |-> pad]
Trim(w) == [w EXCEPT !.pad = FALSE]
Blank(w) == w.text = EmptyText

\* String.prototype.toUpperCase on the status codes of the feed
ToUpperCase(code) ==
    IF code = "del" THEN "DEL" ELSE IF code = "ofd" THEN "OFD" ELSE code

\* name, phone and address of a pickup_info or drop_info; "" is a missing one
Info(name, phone, address) == [name |-> name, phone |-> phone, address |-> address]

\* String.prototype.trim on the names of the feed
TrimText(s) == IF s = " Asha " THEN "Asha" ELSE s

TrimInfo(i) == Info(TrimText(i.name), TrimText(i.phone), TrimText(i.address))

\* the body of an order webhook request; shipment_details.items is None when
\* it is missing or not an array
OrderBody(oid, pickup, drop, shipment) ==
    [order_id |-> oid, pickup_info |-> pickup, drop_info |-> drop,
     shipment_details |-> shipment]

Shipment(items) == [items |-> items]

\* the body of a status update request
StatusBody(waybill, code) == [waybill |-> waybill, status_code |-> code]

CpRequest(route, headers, body) == [route |-> route, headers |-> headers, body |-> body]

\* an order webhook that does not look into drop_info
OrderInvalid_NoDropCheck(b) ==
    IF \/ ~IsSome(b.order_id) \/ ~IsSome(b.pickup_info)
       \/ ~IsSome(b.drop_info) \/ ~IsSome(b.shipment_details)
    THEN Some(400)
    ELSE IF "" \in {Get(b.pickup_info).name, Get(b.pickup_info).phone,
                    Get(b.pickup_info).address}
    THEN Some(400)
    ELSE IF ~IsSome(Get(b.shipment_details).items) THEN Some(400)
    ELSE None

\* the status the order webhook answers an ill-formed body with, or None
OrderInvalid(b) ==
    IF \/ ~IsSome(b.order_id) \/ ~IsSome(b.pickup_info)
       \/ ~IsSome(b.drop_info) \/ ~IsSome(b.shipment_details)
    THEN Some(400)
    ELSE IF "" \in {Get(b.pickup_info).name, Get(b.pickup_info).phone,
                    Get(b.pickup_info).address}
    THEN Some(400)
    ELSE IF "" \in {Get(b.drop_info).name, Get(b.drop_info).phone,
                    Get(b.drop_info).address}
    THEN Some(400)
    ELSE IF ~IsSome(Get(b.shipment_details).items) THEN Some(400)
    ELSE None

\* orderToSave
OrderToSave(b, waybill, now) ==
    [order_id |-> Get(b.order_id),
     waybill |-> waybill,
     status |-> "Pending",
     status_history |-> <<[status |-> "Pending", timestamp |-> Date(now),
                           source |-> "webhook"]>>,
     pickup_info |-> TrimInfo(Get(b.pickup_info)),
     drop_info |-> TrimInfo(Get(b.drop_info)),
     items |-> Get(Get(b.shipment_details).items),
     created_at |-> Date(now),
     updated_at |-> Date(now),
     last_status_update |-> None,
     source |-> "webhook"]

\* orderToSave as the router module builds it: the dev variant adds
\* instance: 'dev'
Instanced(doc) ==
    IF cpModule.instance = "dev"
    THEN [f \in DOMAIN doc \cup {"instance"} |->
             IF f = "instance" THEN "dev" ELSE doc[f]]
    ELSE doc

\* the status the status update route answers an ill-formed body with, or None
StatusInvalid(b) ==
    IF ~IsSome(b.waybill) \/ b.status_code = "" THEN Some(400)
    ELSE IF Blank(Get(b.waybill)) THEN Some(400)
    ELSE None

\* the update of updateOne: $set of status, updated_at and
\* last_status_update, $push of one status_history entry
StatusUpdate(doc, b, now) ==
    [doc EXCEPT
        !.status = ToUpperCase(b.status_code),
        !.updated_at = Date(now),
        !.last_status_update =
            Some([status_code |-> ToUpperCase(b.status_code), timestamp |-> Date(now)]),
        !.status_history =
            Append(@, [status |-> ToUpperCase(b.status_code), timestamp |-> Date(now),
                       source |-> "clickpost_api"])]

\* the documents of collection st that the filter {order_id} selects
ByOrderId(st, oid) == {i \in 1 .. Len(st) : st[i].order_id = oid}

\* the documents of collection st that the filter {waybill: waybill.trim()}
\* selects
ByWaybill(st, w) == {i \in 1 .. Len(st) : Spelled(st[i].waybill, FALSE) = Trim(w)}

\* the first document updateOne finds
First(S) == CHOOSE i \in S : \A j \in S : i <= j

\* the ClickPost requests received so far
CpReceived == Len(cpResp) + Cardinality({p \in Procs : IsSome(cpReq[p].request)})

\* the sync, the webhook handlers and the wall clock as the ClickPost routes
\* leave them
syncVars == <<store, pc, call, existing, pending, changes, log, req, resp>>

\* the route of request p answers r and ends; `pushed` tells whether the
\* ClickPost API took the status update, st is the collection at that moment
CpAnswer(p, r, status, error, pushed, st) ==
    /\ cpResp' = Append(cpResp, [request |-> r, status |-> status, error |-> error,
                                 pushed |-> pushed, stored |-> st])
    /\ cpReq' = [cpReq EXCEPT ![p] = NoCpReq]

\* POST /webhook/orders arrives: validateToken, the checks of the body, and
\* findOne({order_id}) is issued
OrderReceive(p, r) ==
    /\ r.route = "webhook/orders"
    /\ cpReq[p] = NoCpReq
    /\ CpReceived < MaxRequests
    /\ IF IsSome(Denied(r.headers))
       THEN CpAnswer(p, r, Get(Denied(r.headers)).status,
                     Some(Get(Denied(r.headers)).error), FALSE, cpStore)
       ELSE IF IsSome(OrderInvalid(r.body))
       THEN CpAnswer(p, r, Get(OrderInvalid(r.body)), None, FALSE, cpStore)
       ELSE /\ cpReq' = [cpReq EXCEPT ![p] =
                            [request |-> Some(r), stage |-> "find", doc |-> None]]
            /\ UNCHANGED cpResp
    /\ UNCHANGED <<cpStore, cpOut, awbCounter, clock, syncVars, cpModule>>

\* findOne finds an order with that order_id: 409
OrderFound(p) ==
    /\ cpReq[p].stage = "find"
    /\ LET r == Get(cpReq[p].request)
       IN  /\ ByOrderId(cpStore, Get(r.body.order_id)) # {}
           /\ CpAnswer(p, r, 409, Some("Order already exists"), FALSE, cpStore)
    /\ UNCHANGED <<cpStore, cpOut, awbCounter, clock, syncVars, cpModule>>

\* findOne finds none: the waybill is generated, orderToSave is built and
\* insertOne is issued
OrderAbsent(p) ==
    /\ cpReq[p].stage = "find"
    /\ LET r == Get(cpReq[p].request)
       IN  /\ ByOrderId(cpStore, Get(r.body.order_id)) = {}
           /\ cpReq' = [cpReq EXCEPT ![p] =
                           [request |-> Some(r), stage |-> "insert",
                            doc |-> Some(Instanced(OrderToSave(r.body,
                                                               Awb(clock + 1, awbCounter),
                                                               clock + 1)))]]
    /\ awbCounter' = awbCounter + 1
    /\ clock' = clock + 1
    /\ UNCHANGED <<cpStore, cpOut, cpResp, syncVars, cpModule>>

\* insertOne resolves: 200
OrderInsertOne(p) ==
    /\ cpReq[p].stage = "insert"
    /\ LET st == Append(cpStore, Get(cpReq[p].doc))
       IN  /\ cpStore' = st
           /\ CpAnswer(p, Get(cpReq[p].request), 200, None, FALSE, st)
    /\ UNCHANGED <<cpOut, awbCounter, clock, syncVars, cpModule>>

\* POST /status/update arrives: validateToken, the checks of the body, and
\* the status is posted to the ClickPost API
StatusReceive(p, r) ==
    /\ r.route = "status/update"
    /\ cpReq[p] = NoCpReq
    /\ CpReceived < MaxRequests
    /\ IF IsSome(Denied(r.headers))
       THEN CpAnswer(p, r, Get(Denied(r.headers)).status,
                     Some(Get(Denied(r.headers)).error), FALSE, cpStore)
       ELSE IF IsSome(StatusInvalid(r.body))
       THEN CpAnswer(p, r, Get(StatusInvalid(r.body)), None, FALSE, cpStore)
       ELSE /\ cpReq' = [cpReq EXCEPT ![p] =
                            [request |-> Some(r), stage |-> "push", doc |-> None]]
            /\ UNCHANGED cpResp
    /\ UNCHANGED <<cpStore, cpOut, awbCounter, clock, syncVars, cpModule>>

\* the ClickPost API answers the post: updateOne is issued
PushSucceeds(p) ==
    /\ cpReq[p].stage = "push"
    /\ LET b == Get(cpReq[p].request).body
       IN  cpOut' = Append(cpOut, [waybill |-> Trim(Get(b.waybill)),
                                   status |-> ToUpperCase(b.status_code)])
    /\ cpReq' = [cpReq EXCEPT ![p].stage = "update"]
    /\ UNCHANGED <<cpStore, cpResp, awbCounter, clock, syncVars, cpModule>>

\* a route that writes the status to the stored order although the post
\* failed, and then answers 500
PushFails_LocalFirst(p) ==
    /\ cpReq[p].stage = "push"
    /\ LET r == Get(cpReq[p].request)
           found == ByWaybill(cpStore, Get(r.body.waybill))
           st == IF found = {} THEN cpStore
                 ELSE [cpStore EXCEPT ![First(found)] = StatusUpdate(@, r.body, clock)]
       IN  /\ cpStore' = st
           /\ CpAnswer(p, r, 500, Some("ClickPost API call failed"), FALSE, st)
    /\ UNCHANGED <<cpOut, awbCounter, clock, syncVars, cpModule>>

\* the post fails (an error status, no connection, the 10 s timeout): the
\* route throws and its catch answers 500; the API may have taken the update
PushFails(p) ==
    /\ cpReq[p].stage = "push"
    /\ LET b == Get(cpReq[p].request).body
       IN  \E taken \in BOOLEAN :
              cpOut' = IF taken
                       THEN Append(cpOut, [waybill |-> Trim(Get(b.waybill)),
                                           status |-> ToUpperCase(b.status_code)])
                       ELSE cpOut
    /\ CpAnswer(p, Get(cpReq[p].request), 500, Some("ClickPost API call failed"),
                FALSE, cpStore)
    /\ UNCHANGED <<cpStore, awbCounter, clock, syncVars, cpModule>>

\* updateOne({waybill}) resolves: 200 when it matched an order, 404 when not
StatusUpdateOne(p) ==
    /\ cpReq[p].stage = "update"
    /\ LET r == Get(cpReq[p].request)
           found == ByWaybill(cpStore, Get(r.body.waybill))
       IN  IF found = {}
           THEN /\ CpAnswer(p, r, 404, Some("not found"), TRUE, cpStore)
                /\ UNCHANGED cpStore
           ELSE LET st == [cpStore EXCEPT ![First(found)] =
                              StatusUpdate(@, r.body, clock + 1)]
                IN  /\ cpStore' = st
                    /\ CpAnswer(p, r, 200, None, TRUE, st)
    /\ clock' = clock + 1
    /\ UNCHANGED <<cpOut, awbCounter, syncVars, cpModule>>

\* findOne, insertOne or updateOne rejects: the catch of the route answers 500
CpStoreRejects(p) ==
    /\ cpReq[p].stage \in {"find", "insert", "update"}
    /\ CpAnswer(p, Get(cpReq[p].request), 500, Some("store error"),
                cpReq[p].stage = "update", cpStore)
    /\ UNCHANGED <<cpStore, cpOut, awbCounter, clock, syncVars, cpModule>>

\* the requests of the feed
CpGood == CpHeaders(Some(CLICKPOST_WEBHOOK_TOKEN), None)

GoodInfo == Info(" Asha ", "98", "12 Hill Rd")

OrderRequests ==
    {CpRequest("webhook/orders", CpGood,
               OrderBody(Some(oid), Some(GoodInfo), Some(GoodInfo),
                         Some(Shipment(Some(<<"item">>))))) : oid \in {"O1", "O2"}}
    \cup
    {CpRequest("webhook/orders", CpHeaders(None, None),
               OrderBody(Some("O1"), Some(GoodInfo), Some(GoodInfo),
                         Some(Shipment(Some(<<"item">>))))),
     CpRequest("webhook/orders", CpGood,
               OrderBody(Some("O1"), Some(Info("Asha", "", "12 Hill Rd")),
                         Some(GoodInfo), Some(Shipment(Some(<<"item">>))))),
     CpRequest("webhook/orders", CpGood,
               OrderBody(None, Some(GoodInfo), Some(GoodInfo),
                         Some(Shipment(Some(<<"item">>))))),
     CpRequest("webhook/orders", CpGood,
               OrderBody(Some("O1"), Some(GoodInfo), Some(GoodInfo), None)),
     CpRequest("webhook/orders", CpGood,
               OrderBody(Some("O1"), Some(GoodInfo),
                         Some(Info("Asha", "98", "")),
                         Some(Shipment(Some(<<"item">>))))),
     CpRequest("webhook/orders", CpGood,
               OrderBody(Some("O1"), Some(GoodInfo), Some(GoodInfo),
                         Some(Shipment(None))))}

\* status updates name the waybill of a stored order, padded or not, or a
\* waybill no order has
StatusRequests ==
    {CpRequest("status/update", CpGood, StatusBody(Some(Spelled(w, pad)), code)) :
        w \in {cpStore[i].waybill : i \in 1 .. Len(cpStore)} \cup {OtherAwb},
        pad \in BOOLEAN, code \in {"DEL", "ofd"}}
    \cup
    {CpRequest("status/update", CpHeaders(None, Some(Authorization("Bearer", "other"))),
               StatusBody(Some(Spelled(OtherAwb, FALSE)), "DEL")),
     CpRequest("status/update", CpGood, StatusBody(Some(Spelled(EmptyText, TRUE)), "DEL")),
     CpRequest("status/update", CpGood, StatusBody(None, "DEL"))}

\* request slots are interchangeable: a new request takes the first free one
CpFirstFree(p) ==
    cpReq[p] = NoCpReq /\ \A q \in Procs : q < p => cpReq[q] # NoCpReq

\* the ClickPost routes, requests overlapping
ClickNext ==
    \E p \in Procs :
        \/ \E r \in OrderRequests : CpFirstFree(p) /\ OrderReceive(p, r)
        \/ \E r \in StatusRequests : CpFirstFree(p) /\ StatusReceive(p, r)
        \/ OrderFound(p)
        \/ OrderAbsent(p)
        \/ OrderInsertOne(p)
        \/ PushSucceeds(p)
        \/ PushFails(p)
        \/ StatusUpdateOne(p)
        \/ CpStoreRejects(p)

ClickSpec == Init /\ [][ClickNext]_vars

----------------------------------------------------------------------------
(* Properties of the ClickPost routes (ClickSpec) *)

\* the orders of collection st that carry the waybill request r names
Named(st, r) ==
    {i \in 1 .. Len(st) : Spelled(st[i].waybill, FALSE) = Trim(Get(r.body.waybill))}

\* document d records the status of request r and a history entry for it
Records(d, r) ==
    /\ d.status = ToUpperCase(r.body.status_code)
    /\ \E j \in 1 .. Len(d.status_history) :
          /\ d.status_history[j].status = ToUpperCase(r.body.status_code)
          /\ d.status_history[j].source = "clickpost_api"

\* C28: a failure of the outbound status push is independent of the local
\* status update: when a status update for a stored order is answered with
\* the push having failed, the stored order records the new status and a
\* history entry for it
C28_PushFailureKeepsLocalUpdate ==
    \A k \in 1 .. Len(cpResp) :
        LET a == cpResp[k]
        IN  (/\ a.request.route = "status/update"
             /\ a.error = Some("ClickPost API call failed")) =>
                \A i \in Named(a.stored, a.request) : Records(a.stored[i], a.request)

----------------------------------------------------------------------------
(* The insert path, sub-order by sub-order (ItemSpec) *)

\* the document the k-th call inserted
InsertedBy(k) == log[k].stored[Len(log[k].stored)]

\* the status the insert path gives partial `sub` of desired state d
SeedStatus(sub, d) ==
    IF sub.item_status \in {NoStatus, Null, ""} THEN d.order_status
    ELSE sub.item_status

\* C30: a call that inserts stores every sub-order of its desired state
\* (those under order_items, or under suborders when order_items is absent)
\* with item_status X and the single history entry {old_status: null,
\* new_status: X, source: "created-by-" + source}, X being the sub-order's
\* own item_status when it has one and the order_status of the desired state
\* otherwise
C30_SubOrderSeed ==
    \A k \in 1 .. Len(log) :
        log[k].action = "inserted" =>
            LET d == log[k].desired
                subs == IF IsSome(d.order_items) THEN Get(d.order_items)
                        ELSE IF IsSome(d.suborders) THEN Get(d.suborders)
                        ELSE <<>>
                list == IF IsSome(d.order_items) THEN InsertedBy(k).order_items
                        ELSE InsertedBy(k).suborders
            IN  /\ subs # <<>> => IsSome(list) /\ Len(Get(list)) = Len(subs)
                /\ \A n \in 1 .. Len(subs) :
                      LET X == Bson(SeedStatus(subs[n], d))
                          s == Get(list)[n]
                      IN  /\ s.suborder_id = subs[n].suborder_id
                          /\ s.item_status = X
                          /\ Len(s.status_history) = 1
                          /\ s.status_history[1].old_status = Null
                          /\ s.status_history[1].new_status = X
                          /\ s.status_history[1].source = "created-by-" \o log[k].source
                          /\ s.status_history[1].timestamp = Date(log[k].time)

\* an order was inserted from a payload with its items under suborders: the
\* item without a status took the order's, the other kept its own
C30_Witness ==
    \E k \in 1 .. Len(log) :
        /\ log[k].action = "inserted"
        /\ ~IsSome(log[k].desired.order_items)
        /\ IsSome(InsertedBy(k).suborders)
        /\ LET subs == Get(InsertedBy(k).suborders)
           IN  /\ Len(subs) = 2
               /\ log[k].desired.suborders[1][1].item_status = NoStatus
               /\ subs[1].item_status = "Created"
               /\ subs[1].status_history[1].new_status = "Created"
               /\ subs[2].item_status = "Confirmed"
               /\ subs[2].status_history[1].new_status = "Confirmed"

----------------------------------------------------------------------------
(* The changes list (ItemSpec) *)

\* the history entries the k-th call appended to the sub-orders numbered up
\* to n of the order it read
RECURSIVE SubAppends(_, _)
SubAppends(k, n) ==
    IF n = 0 THEN 0
    ELSE SubAppends(k, n - 1)
            + Len(Items(Left(k))[n].status_history)
            - Len(Items(Get(log[k].read))[n].status_history)

\* the mutations the k-th call applied to the order it read: the entries it
\* appended to the top-level history and to the sub-order histories, and the
\* credit note it pushed
Mutations(k) ==
    (Len(Left(k).status_history) - Len(Get(log[k].read).status_history))
        + SubAppends(k, Len(Items(Get(log[k].read))))
        + (IF IsSome(log[k].push) THEN 1 ELSE 0)

\* C31: a call that returns "updated" lists one change per mutation it
\* applied (a top-level status transition, each sub-order status transition,
\* the pushed key) and at least one; a call that returns "no_change" lists
\* none and applied none
C31_ChangesListMutations ==
    \A k \in 1 .. Len(log) :
        /\ log[k].action = "updated" =>
              /\ Len(log[k].changes) = Mutations(k)
              /\ log[k].changes # <<>>
        /\ log[k].action = "no_change" =>
              /\ log[k].changes = <<>>
              /\ Mutations(k) = 0

\* calls returned "updated" with three changes (top-level status, one
\* sub-order, the pushed credit note) and with one change (the credit note
\* alone)
C31_Witness ==
    /\ \E k \in 1 .. Len(log) :
          /\ log[k].action = "updated"
          /\ Len(log[k].changes) = 3
          /\ IsSome(log[k].push)
          /\ Len(Left(k).status_history) = Len(Get(log[k].read).status_history) + 1
    /\ \E k \in 1 .. Len(log) :
          /\ log[k].action = "updated"
          /\ log[k].changes = <<"pushed_data_to: returns">>

----------------------------------------------------------------------------
(* The loop of a webhook handler (HookSpec) *)

\* the sync calls the loop of `route` makes for `entries`, in array order
RECURSIVE CallsFor(_, _)
CallsFor(route, entries) ==
    IF entries = <<>> THEN <<>>
    ELSE LET s == EntryStep(route, Head(entries))
         IN  (IF s.kind = "call" THEN <<Get(s.in)>> ELSE <<>>)
                 \o CallsFor(route, Tail(entries))

\* outcome o is the outcome of entry e of a batch of `route`
OutcomeOf(o, route, e) ==
    LET s == EntryStep(route, e)
    IN  IF s.kind = "call"
        THEN o.order_id = Some(Get(s.in).orderId) /\ IsSome(o.action) /\ o.error = None
        ELSE o.action = None /\ IsSome(o.error)

\* the last n calls that returned were made with the arguments `ins`, in that
\* order, each started after the one before it
LastCalls(ins) ==
    LET n == Len(ins)
        base == Len(log) - n
    IN  /\ base >= 0
        /\ \A j \in 1 .. n :
              /\ log[base + j].orderId = ins[j].orderId
              /\ log[base + j].desired = ins[j].desired
              /\ log[base + j].source = ins[j].source
              /\ j > 1 => log[base + j].time > log[base + j - 1].time

\* C32: the entries of a batch are synchronized one after another in array
\* order: while a request is served, one call runs, it is the call for the
\* entry that follows the entries with an outcome, the calls for those have
\* returned in array order and started before it, and the entries behind it
\* are untouched; a response with details has one outcome per entry of the
\* batch, in array order, and processedCount is the length of the batch; the
\* entries of every stored history stand in the order of their calls
C32_BatchInArrayOrder ==
    /\ \A p \in Procs :
          IsSome(req[p].request) =>
              LET r == Get(req[p].request)
                  b == Get(Batch(r.route, r.body))
                  done == Len(req[p].results)
                  cur == EntryStep(r.route, b[done + 1])
              IN  /\ done < Len(b)
                  /\ pc[p] # "idle"
                  /\ cur.kind = "call"
                  /\ call[p].orderId = Get(cur.in).orderId
                  /\ call[p].desired = Get(cur.in).desired
                  /\ req[p].rest = SubSeq(b, done + 2, Len(b))
                  /\ \A i \in 1 .. done : OutcomeOf(req[p].results[i], r.route, b[i])
                  /\ LastCalls(CallsFor(r.route, SubSeq(b, 1, done)))
                  /\ \A j \in 1 .. Len(log) : log[j].time < call[p].currentTime
    /\ \A k \in 1 .. Len(resp) :
          IsSome(resp[k].details) =>
              LET d == Get(resp[k].details)
              IN  /\ Len(d) = Len(BatchOf(k))
                  /\ resp[k].processedCount = Some(Len(BatchOf(k)))
                  /\ \A i \in 1 .. Len(d) :
                        OutcomeOf(d[i], resp[k].request.route, BatchOf(k)[i])
    /\ \A i \in 1 .. Len(store) :
          \A m, n \in 1 .. Len(store[i].status_history) :
              m < n => Entries(store[i].status_history)[m].time
                          < Entries(store[i].status_history)[n].time

\* one payload created order 555 and confirmed it: the response lists the
\* two outcomes in array order and the history holds the two entries in that
\* order
C32_Witness ==
    \E k \in 1 .. Len(resp) :
        /\ resp[k].request.body = Body("array", <<OrderA, OrderB>>)
        /\ IsSome(resp[k].details)
        /\ Get(resp[k].details) = <<Result(555, "inserted"), Result(555, "updated")>>
        /\ resp[k].processedCount = Some(2)
        /\ Len(store) = 1
        /\ Len(store[1].status_history) = 2
        /\ store[1].status_history[1].new_status = "Created"
        /\ store[1].status_history[2].new_status = "Confirmed"

----------------------------------------------------------------------------
(* Status and history agree (RaceSpec) *)

\* overlapping calls on one order with two sub-orders: its creation, a
\* confirmation, a tracking update of sub-order 1 and a status feed that
\* moves the order and sub-order 2
RaceInputs ==
    {Input(555,
           Desired(NumId(555), "Created",
                   Some(<<Partial(1, "Created"), Partial(2, NoStatus)>>)),
           "create-order-webhook", None),
     Input(555, Desired(NumId(555), "Confirmed", None), "confirm-order-webhook", None),
     TrackingCall(555, Tracking(1, "Shipped")),
     Input(555, Desired(NumId(555), "Shipped", Some(<<Partial(2, "Shipped")>>)),
           "fetch-orders-webhook", None)}

RaceNext ==
    \E p \in Procs :
        \/ \E in \in RaceInputs : FirstFree(p) /\ StartSync(p, in)
        \/ FindAbsent(p)
        \/ FindNoChange(p)
        \/ FindChanged(p)
        \/ InsertOne(p)
        \/ ReplaceOne(p)

RaceSpec == Init /\ [][RaceNext]_vars

\* status st is the new_status of the last entry of history h; a status that
\* is absent is recorded as null
AgreesWith(st, h) == h # <<>> /\ h[Len(h)].new_status = Bson(st)

----------------------------------------------------------------------------
(* A store failure in the middle of a batch (HookSpec) *)

\* the sync call request p was running ends with the store's error
FailsInBatch(p) ==
    /\ pc[p] # "idle"
    /\ IsSome(req[p].request)
    /\ Len(log') = Len(log) + 1
    /\ log'[Len(log')].action = "error"

\* the entries of `results` that a sync call of the batch produced
Synced(results) == {i \in 1 .. Len(results) : IsSome(results[i].action)}

\* C34: when a store failure makes a sync call throw in the middle of a
\* batch, what the earlier sync calls of the batch wrote is still in the
\* collection, the entries after the failing one are dropped without a sync
\* call, and the response is a 500 that carries no details
C34_Step ==
    \A p \in Procs :
        FailsInBatch(p) =>
            /\ store' = store
            /\ Synced(req[p].results) # {} =>
                  /\ store = log[Len(log)].stored
                  /\ \A i \in Synced(req[p].results) :
                        req[p].results[i].action \in {Some("inserted"), Some("updated")} =>
                            Matching(store', Get(req[p].results[i].order_id)) # {}
            /\ req'[p] = NoReq
            /\ pc'[p] = "idle"
            /\ call'[p] = NoCall
            /\ Sends
            /\ Sent.request = Get(req[p].request)
            /\ Sent.status = 500
            /\ Sent.details = None
            /\ Sent.processedCount = None

C34_MidBatchFailure == [][C34_Step]_vars

\* a batch of three orders whose second sync call failed: the first order is
\* in the collection, the third was never synchronized, the answer is a 500
C34_Witness ==
    /\ Len(resp) = 1
    /\ resp[1].request.body = Body("keyed", <<OrderA, OrderB, OrderC>>)
    /\ resp[1].status = 500
    /\ resp[1].details = None
    /\ Len(log) = 2
    /\ log[1].action = "inserted"
    /\ log[2].action = "error"
    /\ Len(store) = 1
    /\ store[1].order_id = NumId(555)
    /\ \A p \in Procs : pc[p] = "idle"

----------------------------------------------------------------------------
(* A credit note delivered twice (ItemSpec) *)

\* calls j and k, both on the stored order, are two deliveries of one credit
\* note
Redelivered(j, k) ==
    /\ j < k
    /\ IsSome(log[j].push)
    /\ log[k].push = log[j].push
    /\ log[k].orderId = log[j].orderId
    /\ log[k].desired = log[j].desired
    /\ log[k].source = log[j].source
    /\ IsSome(log[j].read)
    /\ IsSome(log[k].read)

\* the order that call k read and the stored sub-orders its payload lists
\* already have the status the payload asks for
Settled(k) ==
    LET doc == Get(log[k].read)
        parts == Partials(log[k].desired)
    IN  /\ doc.order_status = log[k].desired.order_status
        /\ \A i \in 1 .. Len(parts) :
              LET n == FindSub(Items(doc), parts[i].suborder_id)
              IN  n # 0 => Items(doc)[n].item_status = parts[i].item_status

\* the histories of the order call k left are those of the order it read
SameHistories(k) ==
    /\ Entries(Left(k).status_history) = Entries(Get(log[k].read).status_history)
    /\ Len(Items(Left(k))) = Len(Items(Get(log[k].read)))
    /\ \A n \in 1 .. Len(Items(Left(k))) :
          Entries(Items(Left(k))[n].status_history)
              = Entries(Items(Get(log[k].read))[n].status_history)

\* how often note x occurs in the returns of doc
TimesReturned(doc, x) ==
    Cardinality({i \in 1 .. Len(ReturnsOf(doc)) : ReturnsOf(doc)[i] = x})

\* C35: a second delivery of a credit note for a stored order returns
\* "updated", never "no_change", appends the credit note to returns once
\* more and stamps last_updated with its own time; when the order and the
\* sub-orders of the note already have the status "Returned" it lists the
\* push as its only change and appends no history entry
C35_RedeliveryNotIdempotent ==
    \A k \in 1 .. Len(log) :
        \A j \in 1 .. k - 1 :
            Redelivered(j, k) =>
                /\ log[k].action = "updated"
                /\ ReturnsOf(Left(k))
                       = Append(ReturnsOf(Get(log[k].read)), Get(log[k].push))
                /\ TimesReturned(Left(k), Get(log[k].push))
                       = TimesReturned(Get(log[k].read), Get(log[k].push)) + 1
                /\ Left(k).last_updated = log[k].time
                /\ Left(k).last_updated > Get(log[k].read).last_updated
                /\ Settled(k) =>
                      /\ log[k].changes = <<"pushed_data_to: returns">>
                      /\ SameHistories(k)

\* a credit note delivered to a stored order and at once delivered again:
\* every status is "Returned" before the second delivery, which leaves the
\* note twice in returns
C35_Witness ==
    /\ Len(log) = 3
    /\ Redelivered(2, 3)
    /\ Get(log[3].read).order_status = "Returned"
    /\ \E n \in 1 .. Len(Items(Get(log[3].read))) :
          Items(Get(log[3].read))[n].item_status = "Returned"
    /\ Settled(3)
    /\ log[3].action = "updated"
    /\ TimesReturned(store[1], Get(log[3].push)) = 2
    /\ store[1].last_updated = log[3].time

----------------------------------------------------------------------------
(* One ClickPost order per order_id (ClickSpec) *)

\* C36: a ClickPost order webhook request whose order_id is already in the
\* collection is answered 409 and inserts nothing, and under any
\* interleaving of concurrent order webhook requests the collection holds at
\* most one order document per order_id
C36_OnePerOrderId ==
    /\ \A k \in 1 .. Len(cpResp) :
          cpResp[k].status = 409 =>
              /\ cpResp[k].request.route = "webhook/orders"
              /\ Cardinality(ByOrderId(cpResp[k].stored,
                                       Get(cpResp[k].request.body.order_id))) = 1
    /\ \A i, j \in 1 .. Len(cpStore) :
          cpStore[i].order_id = cpStore[j].order_id => i = j

----------------------------------------------------------------------------
(* The status update route: the push, then the local update (ClickSpec) *)

\* the step is one of the status update request in slot p
StatusStep(p) ==
    /\ cpReq'[p] # cpReq[p]
    /\ \/ IsSome(cpReq[p].request) /\ Get(cpReq[p].request).route = "status/update"
       \/ IsSome(cpReq'[p].request) /\ Get(cpReq'[p].request).route = "status/update"

\* the step answers a request; CpSent is the response
CpSends == Len(cpResp') = Len(cpResp) + 1
CpSent == cpResp'[Len(cpResp')]

\* what the ClickPost API is sent for body b
PushOf(b) == [waybill |-> Trim(Get(b.waybill)), status |-> ToUpperCase(b.status_code)]

\* the ClickPost API has been sent the status of body b
Posted(b) == \E i \in 1 .. Len(cpOut) : cpOut[i] = PushOf(b)

\* the step gives order i the status of body b and one more history entry,
\* and leaves the other orders alone
SetsStatus(i, b) ==
    /\ Len(cpStore') = Len(cpStore)
    /\ \A j \in 1 .. Len(cpStore) : j # i => cpStore'[j] = cpStore[j]
    /\ cpStore'[i].status = ToUpperCase(b.status_code)
    /\ Len(cpStore'[i].status_history) = Len(cpStore[i].status_history) + 1
    /\ cpStore'[i].status_history[Len(cpStore[i].status_history) + 1].status
           = ToUpperCase(b.status_code)
    /\ cpStore'[i].status_history[Len(cpStore[i].status_history) + 1].source
           = "clickpost_api"
    /\ \A n \in 1 .. Len(cpStore[i].status_history) :
          cpStore'[i].status_history[n] = cpStore[i].status_history[n]

\* C37: the status update route changes the stored order (the status, one
\* more history entry) only after its post to the ClickPost API has
\* succeeded; when the waybill matches no stored order it answers 404 and
\* changes nothing although the status has been posted; when the post fails
\* it answers 500 and changes nothing
C37_Step ==
    /\ (CpSends /\ CpSent.request.route = "status/update" /\ cpReq' = cpReq) =>
          cpStore' = cpStore /\ cpOut' = cpOut
    /\ \A p \in Procs :
          StatusStep(p) =>
              LET r == IF IsSome(cpReq[p].request) THEN Get(cpReq[p].request)
                       ELSE Get(cpReq'[p].request)
              IN  /\ cpStore' # cpStore =>
                        /\ cpReq[p].stage = "update"
                        /\ Posted(r.body)
                        /\ CpSends
                        /\ CpSent.status = 200
                        /\ \E i \in ByWaybill(cpStore, Get(r.body.waybill)) :
                              SetsStatus(i, r.body)
                  /\ (CpSends /\ CpSent.status = 404) =>
                        /\ cpStore' = cpStore
                        /\ cpReq[p].stage = "update"
                        /\ Posted(r.body)
                        /\ ByWaybill(cpStore, Get(r.body.waybill)) = {}
                  /\ (cpReq[p].stage = "update" /\ CpSends
                        /\ ByWaybill(cpStore, Get(r.body.waybill)) = {}) =>
                        /\ CpSent.status \in {404, 500}
                        /\ cpStore' = cpStore
                  /\ (cpReq[p].stage = "push" /\ CpSends) =>
                        /\ CpSent.status = 500
                        /\ cpStore' = cpStore
                  /\ (cpReq[p].stage = "push" /\ ~CpSends) =>
                        /\ cpStore' = cpStore
                        /\ cpOut' = Append(cpOut, PushOf(r.body))

C37_PushBeforeLocalUpdate == [][C37_Step]_vars

\* an order is stored and a status update for its waybill went through: the
\* status was posted and the order carries it with a second history entry
C37_Witness ==
    /\ Len(cpStore) = 1
    /\ Len(cpResp) = 2
    /\ cpResp[2].request.route = "status/update"
    /\ cpResp[2].status = 200
    /\ Posted(cpResp[2].request.body)
    /\ cpStore[1].status = ToUpperCase(cpResp[2].request.body.status_code)
    /\ cpStore[1].status # "Pending"
    /\ Len(cpStore[1].status_history) = 2
    /\ cpStore[1].status_history[2].source = "clickpost_api"

----------------------------------------------------------------------------
(* The token check of the ClickPost routes, production and dev (AuthSpec) *)

\* the router modules of the file, with and without the token in the
\* environment
RouterModules ==
    {RouterModule(i, t) : i \in {"prod", "dev"},
                          t \in {Some(CLICKPOST_WEBHOOK_TOKEN), None}}

AuthInit == \E m \in RouterModules : Loaded(m)

\* the routes of one router module, whichever it is, requests overlapping
AuthSpec == AuthInit /\ [][ClickNext]_vars

\* request r carries no x-api-key or Bearer token, or one that differs from
\* CLICKPOST_WEBHOOK_TOKEN
BadToken(r) ==
    \/ ~IsSome(CpToken(r.headers))
    \/ CpToken(r.headers) # cpModule.token

\* C38: a request to the order webhook or the status update route whose
\* token is missing or differs from CLICKPOST_WEBHOOK_TOKEN never gets to
\* read or write the collection or to post to the ClickPost API: no such
\* request is ever past the token check, and each is answered 401 by the dev
\* variant and with an error status by the production variant
C38_BadTokenTouchesNothing ==
    /\ \A p \in Procs :
          IsSome(cpReq[p].request) => ~BadToken(Get(cpReq[p].request))
    /\ \A k \in 1 .. Len(cpResp) :
          BadToken(cpResp[k].request) =>
              /\ ~cpResp[k].pushed
              /\ IF cpModule.instance = "dev" THEN cpResp[k].status = 401
                 ELSE cpResp[k].status \in 400 .. 599

----------------------------------------------------------------------------
(* The checks of the ClickPost order webhook (ClickSpec) *)

\* info carries a name, a phone and an address
Filled(info) == info.name # "" /\ info.phone # "" /\ info.address # ""

\* body b has order_id, pickup_info, drop_info and shipment_details, both
\* infos are filled, and shipment_details.items is an array
Complete(b) ==
    /\ IsSome(b.order_id)
    /\ IsSome(b.pickup_info) /\ Filled(Get(b.pickup_info))
    /\ IsSome(b.drop_info) /\ Filled(Get(b.drop_info))
    /\ IsSome(b.shipment_details) /\ IsSome(Get(b.shipment_details).items)

\* C39: the ClickPost order webhook answers 400, before any read or write
\* of the collection, every payload that lacks order_id, pickup_info,
\* drop_info or shipment_details, whose pickup_info or drop_info lacks name,
\* phone or address, or whose shipment_details.items is not an array; an
\* order is inserted only for a payload that passes all these checks, with
\* the status "Pending" and a status_history of one entry
C39_OrderChecked ==
    /\ \A p \in Procs :
          (IsSome(cpReq[p].request)
              /\ Get(cpReq[p].request).route = "webhook/orders") =>
              Complete(Get(cpReq[p].request).body)
    /\ \A k \in 1 .. Len(cpResp) :
          cpResp[k].request.route = "webhook/orders" =>
              /\ (validateToken(cpResp[k].request.headers)
                    /\ ~Complete(cpResp[k].request.body)) =>
                    cpResp[k].status = 400
              /\ (cpResp[k].status = 200) =>
                    /\ Complete(cpResp[k].request.body)
                    /\ cpResp[k].stored # <<>>
                    /\ LET d == cpResp[k].stored[Len(cpResp[k].stored)]
                       IN  /\ d.order_id = Get(cpResp[k].request.body.order_id)
                           /\ d.status = "Pending"
                           /\ Len(d.status_history) = 1
                           /\ d.status_history[1].status = "Pending"
                           /\ d.status_history[1].source = "webhook"
    /\ \A i \in 1 .. Len(cpStore) :
          \E k \in 1 .. Len(cpResp) :
              /\ cpResp[k].request.route = "webhook/orders"
              /\ cpResp[k].status = 200
              /\ Complete(cpResp[k].request.body)
              /\ Len(cpResp[k].stored) = i

\* a payload whose shipment_details.items is not an array was answered 400
\* and a complete payload was answered 200: its order alone is stored
C39_Witness ==
    /\ Len(cpResp) = 2
    /\ \E k \in 1 .. 2 :
          /\ cpResp[k].request.route = "webhook/orders"
          /\ validateToken(cpResp[k].request.headers)
          /\ IsSome(cpResp[k].request.body.shipment_details)
          /\ ~IsSome(Get(cpResp[k].request.body.shipment_details).items)
          /\ cpResp[k].status = 400
    /\ \E k \in 1 .. 2 :
          /\ cpResp[k].request.route = "webhook/orders"
          /\ cpResp[k].status = 200
    /\ Len(cpStore) = 1
    /\ cpStore[1].status = "Pending"

====
